---- MODULE Spec2Model ----
(***************************************************************************)
(* Verification model of the learning-progress dashboard:                  *)
(*   - lib/notion (src/unnamed/part_000): getProgressData, mapPage and     *)
(*     their helpers;                                                      *)
(*   - app/api/notion/progress/route.ts: the GET endpoint;                 *)
(*   - components/ProgressDashboard.tsx: parseUTC and the KPIs.            *)
(*                                                                         *)
(* Text is a sequence of one-character strings, so that trimming, case     *)
(* folding, regular-expression tests and date parsing are computed on the  *)
(* characters.  An instant is a record [valid, day, ms]: whole days since  *)
(* 1970-01-01 UTC plus milliseconds within the day (an Invalid Date has    *)
(* valid = FALSE).                                                         *)
(***************************************************************************)
EXTENDS Integers, Sequences, FiniteSets, TLC

VARIABLES
    page,        \* SpecMap: the raw Notion page handed to mapPage
    row,         \* SpecMap: the record mapPage produced (NoRow before)
    text,        \* SpecDate: the text handed to parseUTC
    parsed,      \* SpecDate: what parseUTC returned (NotParsed before)
    reqDb,       \* Spec: the db parameter of the request URL (null when absent)
    env,         \* Spec: process.env
    source,      \* Spec: the raw pages of the default database, in Notion's order
    pc,          \* Spec: where the GET handler stands
    database_id, \* Spec: getProgressData's database_id
    cursor,      \* Spec: getProgressData's cursor
    rows,        \* Spec: getProgressData's rows
    queries,     \* Spec: the queries sent to Notion so far
    served,      \* Spec: the pages Notion served so far, in order
    responses,   \* Spec: the responses the handler returned
    rejectedAt,  \* Spec: which query was rejected (0: none)
    filtered,    \* SpecDash: the records the date-range filter lets through
    kpis,        \* SpecDash: the KPIs computed from filtered (NoKpis before)
    topicFocus,  \* SpecDash: the topic focus control
    velocity,    \* SpecDash: the series WeeklyVelocity drew (NotDrawn before)
    burnup,      \* SpecDash: the series CumulativeBurnup drew (NotDrawn before)
    topicBars,   \* SpecDash: the rows TopicWiseBars drew (NotDrawn before)
    selectedWeekStart, \* SpecDash: the week of the details dialog (NoDate: null)
    selectedWeekRows,  \* SpecDash: the rows of the details dialog
    openDialog,  \* SpecDash: whether the details dialog is open
    data,        \* SpecView: the records of the last successful load
    dateRange,   \* SpecView: the date-range control
    loading,     \* SpecView: the loading flag
    error,       \* SpecView: the error message (null: none)
    lastLoaded,  \* SpecView: when the last successful load ended (NoDate: null)
    calls,       \* SpecView: the load() calls so far, each in flight or ended
    now,         \* the current instant (new Date())
    tz,          \* the local time zone offset, minutes east of UTC
    engine       \* the JavaScript engine's date-parsing behaviour

mapVars == <<page, row>>
dateVars == <<text, parsed>>
ingestVars ==
    <<reqDb, env, source, pc, database_id, cursor, rows, queries, served, responses, rejectedAt>>
chartVars == <<velocity, burnup, topicBars>>
dialogVars == <<selectedWeekStart, selectedWeekRows, openDialog>>
dashVars == <<filtered, kpis, topicFocus, chartVars, dialogVars>>
clockVars == <<now, tz, engine>>
viewVars == <<data, dateRange, loading, error, lastLoaded, calls>>
vars == <<mapVars, dateVars, ingestVars, dashVars, clockVars, viewVars>>

(***************************************************************************)
(* Text.                                                                   *)
(***************************************************************************)
null == <<"null">>      \* JavaScript null / undefined where a string is expected

UpperChars == <<"A","B","C","D","E","F","G","H","I","J","K","L","M","N","O","P","Q","R","S","T","U","V","W","X","Y","Z">>
LowerChars == <<"a","b","c","d","e","f","g","h","i","j","k","l","m","n","o","p","q","r","s","t","u","v","w","x","y","z">>
DigitChars == <<"0","1","2","3","4","5","6","7","8","9">>
WhiteSpace == {" ", "\t", "\n", "\r"}

IsDigit(c) == \E i \in 1..10 : DigitChars[i] = c
IsAlpha(c) == \E i \in 1..26 : UpperChars[i] = c \/ LowerChars[i] = c
IsSpace(c) == c \in WhiteSpace
DigitVal(c) == (CHOOSE i \in 1..10 : DigitChars[i] = c) - 1

toLowerCaseChar(c) ==
    IF \E i \in 1..26 : UpperChars[i] = c
    THEN LowerChars[CHOOSE i \in 1..26 : UpperChars[i] = c]
    ELSE c

\* String.prototype.toLowerCase
toLowerCase(s) == [i \in 1..Len(s) |-> toLowerCaseChar(s[i])]

\* the least and the greatest member of a non-empty set of numbers
Least(S) == CHOOSE i \in S : \A j \in S : i <= j
Greatest(S) == CHOOSE i \in S : \A j \in S : i >= j

TrimTo(s, keep) == IF keep = {} THEN << >> ELSE SubSeq(s, Least(keep), Greatest(keep))

\* String.prototype.trim: strip leading and trailing white space
trim(s) == TrimTo(s, {i \in 1..Len(s) : ~IsSpace(s[i])})

\* (x ?? ""): null or undefined becomes the empty string
orEmpty(s) == IF s = null THEN << >> ELSE s

\* JavaScript truthiness of a string-or-null value
truthy(s) == s # null /\ s # << >>

RECURSIVE NumOf(_)
\* the number written by a run of decimal digits
NumOf(s) ==
    IF Len(s) = 0 THEN 0
    ELSE 10 * NumOf(SubSeq(s, 1, Len(s) - 1)) + DigitVal(s[Len(s)])

RECURSIVE Digits(_, _)
\* n >= 0 written with at least w decimal digits (zero padded)
Digits(n, w) ==
    IF n < 10 /\ w <= 1 THEN <<DigitChars[n + 1]>>
    ELSE Digits(n \div 10, w - 1) \o <<DigitChars[(n % 10) + 1]>>

\* String(n) for an integer n
NumberToString(n) == IF n < 0 THEN <<"-">> \o Digits(-n, 1) ELSE Digits(n, 1)

RECURSIVE Join(_, _)
\* Array.prototype.join
Join(parts, sep) ==
    IF Len(parts) = 0 THEN << >>
    ELSE IF Len(parts) = 1 THEN parts[1]
    ELSE parts[1] \o sep \o Join(Tail(parts), sep)

(***************************************************************************)
(* Scanning.  A text is cut into its maximal runs of letters ("a"), digits *)
(* ("d") and white space ("s"); any other character is a token of its own, *)
(* whose kind is the character.  White space that follows a comma is       *)
(* dropped (every pattern below allows it and none needs it).  The scan of *)
(* a text is the sequence of its tokens' kinds (k), their lengths (n) and  *)
(* their texts (v).                                                        *)
(***************************************************************************)
CharKind(c) ==
    IF IsDigit(c) THEN "d" ELSE IF IsAlpha(c) THEN "a" ELSE IF IsSpace(c) THEN "s" ELSE c

\* the scan of the one character c
ScanChar(c) == [k |-> <<CharKind(c)>>, n |-> <<1>>, v |-> <<<<c>>>>]

\* the scans a and b of two adjacent pieces of a text (b not empty) made
\* one: white space that follows a comma is dropped, and a run that goes on
\* from one piece into the other is one token
JoinScans(a, b) ==
    IF Len(a.k) = 0 THEN b
    ELSE IF b.k[1] = "s" /\ a.k[Len(a.k)] = ","
    THEN [k |-> a.k \o Tail(b.k), n |-> a.n \o Tail(b.n), v |-> a.v \o Tail(b.v)]
    ELSE IF b.k[1] \in {"a", "d", "s"} /\ a.k[Len(a.k)] = b.k[1]
    THEN [k |-> a.k \o Tail(b.k),
          n |-> [a.n EXCEPT ![Len(a.n)] = @ + b.n[1]] \o Tail(b.n),
          v |-> [a.v EXCEPT ![Len(a.v)] = @ \o b.v[1]] \o Tail(b.v)]
    ELSE [k |-> a.k \o b.k, n |-> a.n \o b.n, v |-> a.v \o b.v]

RECURSIVE ScanFrom(_, _, _)
\* the scan of the characters lo..hi of s, by halves
ScanFrom(s, lo, hi) ==
    IF lo > hi THEN [k |-> << >>, n |-> << >>, v |-> << >>]
    ELSE IF lo = hi THEN ScanChar(s[lo])
    ELSE JoinScans(ScanFrom(s, lo, (lo + hi) \div 2), ScanFrom(s, (lo + hi) \div 2 + 1, hi))

Scan(s) == ScanFrom(s, 1, Len(s))

\* the scan without its first d tokens
DropTokens(sc, d) ==
    [k |-> SubSeq(sc.k, d + 1, Len(sc.k)), n |-> SubSeq(sc.n, d + 1, Len(sc.n)),
     v |-> SubSeq(sc.v, d + 1, Len(sc.v))]

(***************************************************************************)
(* Instants and the UTC calendar (the arithmetic behind Date).             *)
(***************************************************************************)
MsPerMinute == 60 * 1000
MsPerDay == 24 * 60 * MsPerMinute

Instant(day, ms) == [valid |-> TRUE, day |-> day, ms |-> ms]
InvalidDate == [valid |-> FALSE, day |-> 0, ms |-> 0]
NoDate == [valid |-> FALSE, day |-> -1, ms |-> -1]     \* a null where a Date is expected
NotParsed == [valid |-> FALSE, day |-> -2, ms |-> -2]  \* parseUTC has not run

\* carry milliseconds outside 0..MsPerDay-1 into the day count
Normalize(day, ms) == Instant(day + (ms \div MsPerDay), ms % MsPerDay)

AddMinutes(t, mins) == Normalize(t.day, t.ms + mins * MsPerMinute)

IsLeap(y) == (y % 4 = 0 /\ y % 100 # 0) \/ y % 400 = 0

DaysInMonth(y, m) ==
    IF m = 2 THEN (IF IsLeap(y) THEN 29 ELSE 28)
    ELSE IF m \in {4, 6, 9, 11} THEN 30 ELSE 31

\* days from 1970-01-01 to day d of month mp (0 = March) of the year yy that
\* starts in March
DaysFromMarchYear(yy, mp, d) ==
    (yy \div 400) * 146097 + (yy % 400) * 365 + (yy % 400) \div 4
    - (yy % 400) \div 100 + (153 * mp + 2) \div 5 + d - 1 - 719468

\* days from 1970-01-01 to the civil date y-m-d (proleptic Gregorian)
DaysFromCivil(y, m, d) ==
    IF m <= 2 THEN DaysFromMarchYear(y - 1, m + 9, d)
    ELSE DaysFromMarchYear(y, m - 3, d)

CivilOfMarchMonth(y, mp, d) ==
    IF mp < 10 THEN [y |-> y, m |-> mp + 3, d |-> d]
    ELSE [y |-> y + 1, m |-> mp - 9, d |-> d]

CivilOfDayOfYear(y, doy) ==
    CivilOfMarchMonth(y, (5 * doy + 2) \div 153,
                      doy - (153 * ((5 * doy + 2) \div 153) + 2) \div 5 + 1)

CivilOfYearOfEra(era, doe, yoe) ==
    CivilOfDayOfYear(yoe + era * 400, doe - (365 * yoe + yoe \div 4 - yoe \div 100))

CivilOfDayOfEra(era, doe) ==
    CivilOfYearOfEra(era, doe,
        (doe - doe \div 1460 + doe \div 36524 - doe \div 146096) \div 365)

\* the civil date [y, m, d] of a day count
CivilFromDays(days) ==
    CivilOfDayOfEra((days + 719468) \div 146097, (days + 719468) % 146097)

\* Date.UTC(y, m, d) with the month 1-based
DateUTC(y, m, d) == Instant(DaysFromCivil(y, m, 1) + d - 1, 0)

getUTCFullYear(t) == CivilFromDays(t.day).y
getUTCMonth(t) == CivilFromDays(t.day).m
getUTCDate(t) == CivilFromDays(t.day).d

ISOText(c, ms) ==
    Digits(c.y, 4) \o <<"-">> \o Digits(c.m, 2) \o <<"-">> \o Digits(c.d, 2)
    \o <<"T">> \o Digits(ms \div (60 * MsPerMinute), 2) \o <<":">>
    \o Digits((ms \div MsPerMinute) % 60, 2) \o <<":">>
    \o Digits((ms \div 1000) % 60, 2) \o <<".">> \o Digits(ms % 1000, 3) \o <<"Z">>

\* Date.prototype.toISOString of a valid instant: YYYY-MM-DDTHH:mm:ss.sssZ
toISOString(t) == ISOText(CivilFromDays(t.day), t.ms)

\* an instant of the run: 2026-11-03T18:34:12.345Z
Now0 == Instant(DaysFromCivil(2026, 11, 3), ((18 * 60 + 34) * 60 + 12) * 1000 + 345)

(***************************************************************************)
(* new Date(text) / Date.parse(text).                                      *)
(*                                                                         *)
(* ECMAScript fixes the result only for its own date-time format with      *)
(* legal field values.  Everything else is implementation-defined, so the  *)
(* engine is a parameter: "v8" (Node, Chromium) rolls a day of 29..31 that *)
(* the month lacks into the next month and reads a year-less "Mon D" as    *)
(* year 2001 in local time; "strict" answers Invalid Date for both.  Every *)
(* engine reads "Mon D, YYYY" as local midnight and "Mon D, YYYY UTC" as   *)
(* UTC midnight.  A text of no form below is an Invalid Date.              *)
(***************************************************************************)
Engines == {"v8", "strict"}

MonthNames ==
    << <<"j","a","n">>, <<"f","e","b">>, <<"m","a","r">>, <<"a","p","r">>, <<"m","a","y">>, <<"j","u","n">>,
       <<"j","u","l">>, <<"a","u","g">>, <<"s","e","p">>, <<"o","c","t">>, <<"n","o","v">>, <<"d","e","c">> >>

\* 1..12 for a month abbreviation (any case), 0 for any other word
MonthIndexOfLower(w) ==
    IF \E i \in 1..12 : MonthNames[i] = w
    THEN CHOOSE i \in 1..12 : MonthNames[i] = w
    ELSE 0
MonthIndex(w) == MonthIndexOfLower(toLowerCase(w))

\* the year the engine gives a text that names none
LegacyDefaultYear == 2001

\* the instant of the civil fields, or Invalid Date when a field is out of range;
\* offMin is the zone offset of the text (minutes east of UTC)
MakeInstant(y, m, d, msOfDay, offMin, eng) ==
    IF m < 1 \/ m > 12 \/ d < 1 \/ d > 31 \/ msOfDay < 0 \/ msOfDay > MsPerDay
    THEN InvalidDate
    ELSE IF d > DaysInMonth(y, m) /\ eng # "v8" THEN InvalidDate
    ELSE AddMinutes(Normalize(DaysFromCivil(y, m, 1) + d - 1, msOfDay), -offMin)

\* YYYY-MM-DD
ISODateKinds == <<"d", "-", "d", "-", "d">>
ISODateLens == <<4, 1, 2, 1, 2>>
IsISODateScan(sc) == sc.k = ISODateKinds /\ sc.n = ISODateLens

\* /^\d{4}-\d{2}-\d{2}$/.test(s)
IsISODateText(s) == IsISODateScan(Scan(s))

\* YYYY-MM-DDTHH:mm:ss, then an optional .sss, then an optional zone
DateTimeKinds == <<"d", "-", "d", "-", "d", "a", "d", ":", "d", ":", "d">>
DateTimeLens == <<4, 1, 2, 1, 2, 1, 2, 1, 2, 1, 2>>
IsDateTimeScan(sc) ==
    /\ Len(sc.k) >= 11
    /\ SubSeq(sc.k, 1, 11) = DateTimeKinds
    /\ SubSeq(sc.n, 1, 11) = DateTimeLens
    /\ sc.v[6] = <<"T">>

\* how many tokens the fraction takes (".sss": 2, none: 0)
FracTokens(sc) ==
    IF Len(sc.k) >= 13 /\ sc.k[12] = "." /\ sc.k[13] = "d" /\ sc.n[13] = 3 THEN 2 ELSE 0
FracMs(sc) == IF FracTokens(sc) = 2 THEN NumOf(sc.v[13]) ELSE 0

\* the zone written by the tokens zs: nothing (local time), "Z", "+HH:MM" or
\* "-HH:MM"; ok = FALSE for anything else
SignedZone(sign, hh, mm) == [ok |-> hh <= 23 /\ mm <= 59, off |-> sign * (60 * hh + mm)]
Zone(zs, tzMin) ==
    IF zs.k = << >> THEN [ok |-> TRUE, off |-> tzMin]
    ELSE IF zs.k = <<"a">> THEN [ok |-> zs.v[1] = <<"Z">>, off |-> 0]
    ELSE IF zs.k \in {<<"+", "d", ":", "d">>, <<"-", "d", ":", "d">>} /\ zs.n = <<1, 2, 1, 2>>
    THEN SignedZone(IF zs.k[1] = "-" THEN -1 ELSE 1, NumOf(zs.v[2]), NumOf(zs.v[4]))
    ELSE [ok |-> FALSE, off |-> 0]

DateTimeFrom(y, m, d, h, mi, sec, f, z, eng) ==
    IF ~z.ok \/ h > 24 \/ mi > 59 \/ sec > 59 \/ (h = 24 /\ mi + sec + f > 0)
    THEN InvalidDate
    ELSE MakeInstant(y, m, d, ((h * 60 + mi) * 60 + sec) * 1000 + f, z.off, eng)

ParseISODateTime(sc, tzMin, eng) ==
    DateTimeFrom(NumOf(sc.v[1]), NumOf(sc.v[3]), NumOf(sc.v[5]), NumOf(sc.v[7]),
                 NumOf(sc.v[9]), NumOf(sc.v[11]), FracMs(sc),
                 Zone(DropTokens(sc, 11 + FracTokens(sc)), tzMin), eng)

\* the scan without a leading "Www," (three letters and a comma)
StripWeekday(sc) ==
    IF Len(sc.k) >= 2 /\ sc.k[1] = "a" /\ sc.n[1] = 3 /\ sc.k[2] = ","
    THEN DropTokens(sc, 2)
    ELSE sc

\* Mon D or Mon DD: three letters, white space, one or two digits
IsMonthDayHead(sc) ==
    /\ Len(sc.k) >= 3
    /\ SubSeq(sc.k, 1, 3) = <<"a", "s", "d">>
    /\ sc.n[1] = 3 /\ sc.n[3] \in {1, 2}

\* /^(?:[A-Za-z]{3},\s*)?([A-Za-z]{3})\s+(\d{1,2})$/ on the scan of a text
\* whose weekday is stripped
IsMonthDayScan(sc) == IsMonthDayHead(sc) /\ Len(sc.k) = 3

\* Mon D, YYYY or Mon D YYYY, then an optional UTC or GMT
IsMonthDayYearScan(sc) ==
    /\ IsMonthDayHead(sc)
    /\ Len(sc.k) \in {5, 7}
    /\ sc.k[4] \in {",", "s"} /\ sc.k[5] = "d" /\ sc.n[5] = 4
    /\ Len(sc.k) = 7 =>
          /\ sc.k[6] = "s" /\ sc.k[7] = "a"
          /\ toLowerCase(sc.v[7]) \in {<<"u","t","c">>, <<"g","m","t">>}

MonthNameInstant(m, d, sc, tzMin, eng) ==
    IF m = 0 THEN InvalidDate
    ELSE IF Len(sc.k) = 3
    THEN (IF eng = "v8" THEN MakeInstant(LegacyDefaultYear, m, d, 0, tzMin, eng)
          ELSE InvalidDate)
    ELSE MakeInstant(NumOf(sc.v[5]), m, d, 0, IF Len(sc.k) = 7 THEN 0 ELSE tzMin, eng)

ParseMonthName(sc, tzMin, eng) ==
    IF IsMonthDayScan(sc) \/ IsMonthDayYearScan(sc)
    THEN MonthNameInstant(MonthIndex(sc.v[1]), NumOf(sc.v[3]), sc, tzMin, eng)
    ELSE InvalidDate

NewDateOfScan(sc, tzMin, eng) ==
    IF IsISODateScan(sc)
    THEN MakeInstant(NumOf(sc.v[1]), NumOf(sc.v[3]), NumOf(sc.v[5]), 0, 0, eng)
    ELSE IF IsDateTimeScan(sc) THEN ParseISODateTime(sc, tzMin, eng)
    ELSE ParseMonthName(StripWeekday(sc), tzMin, eng)

\* new Date(s) for a text s
NewDate(s, tzMin, eng) == NewDateOfScan(Scan(s), tzMin, eng)

(***************************************************************************)
(* lib/notion: the raw Notion page and the record mapper.                  *)
(*                                                                         *)
(* A property value is a record [type, ftype, text, parts, num, hasNum,    *)
(* bool]: type is Notion's kind tag ("undefined" for a property the page   *)
(* lacks), ftype the kind of a formula's result, text the label of a       *)
(* select/status, the start of a date or a formula's string (null when the *)
(* source sends null), parts the plain_text runs of a title/rich_text or   *)
(* the names of a multi_select, num/hasNum a number, bool a formula's      *)
(* boolean ("true", "false" or "null").                                    *)
(***************************************************************************)
FIELD_dateCandidates == <<"Day", "Date">>
FIELD_pythonStatus == "Python Status"
FIELD_llmStatus == "LLM Status"
FIELD_pythonTopic == "Python Topic"
FIELD_llmTopic == "LLM Topic"

FieldNames ==
    {"Day", "Date", FIELD_pythonStatus, FIELD_llmStatus, FIELD_pythonTopic, FIELD_llmTopic}

Blank ==
    [type |-> "undefined", ftype |-> "", text |-> null, parts |-> << >>,
     num |-> 0, hasNum |-> FALSE, bool |-> "null"]

DateProp(start) == [Blank EXCEPT !.type = "date", !.text = start]
StatusProp(name) == [Blank EXCEPT !.type = "status", !.text = name]
SelectProp(name) == [Blank EXCEPT !.type = "select", !.text = name]
NumberProp(n) == [Blank EXCEPT !.type = "number", !.num = n, !.hasNum = TRUE]
TitleProp(runs) == [Blank EXCEPT !.type = "title", !.parts = runs]
RichTextProp(runs) == [Blank EXCEPT !.type = "rich_text", !.parts = runs]
MultiSelectProp(names) == [Blank EXCEPT !.type = "multi_select", !.parts = names]
FormulaNumber(n) ==
    [Blank EXCEPT !.type = "formula", !.ftype = "number", !.num = n, !.hasNum = TRUE]
FormulaBoolean(b) == [Blank EXCEPT !.type = "formula", !.ftype = "boolean", !.bool = b]
FormulaDate(start) == [Blank EXCEPT !.type = "formula", !.ftype = "date", !.text = start]

asPlainText(prop) ==
    IF prop.type = "undefined" THEN null
    ELSE IF prop.type = "formula" THEN
        IF prop.ftype = "undefined" THEN null
        ELSE IF prop.ftype = "string" THEN prop.text
        ELSE IF prop.ftype = "number"
             THEN (IF prop.hasNum THEN NumberToString(prop.num) ELSE null)
        ELSE IF prop.ftype = "boolean"
             THEN (IF prop.bool = "true" THEN <<"t","r","u","e">>
                   ELSE IF prop.bool = "false" THEN <<"f","a","l","s","e">> ELSE null)
        ELSE IF prop.ftype = "date" THEN prop.text
        ELSE null
    ELSE IF prop.type \in {"title", "rich_text"} THEN
        LET joined == Join([i \in 1..Len(prop.parts) |-> orEmpty(prop.parts[i])], << >>)
        IN  IF joined = << >> THEN null ELSE joined
    ELSE IF prop.type \in {"select", "status"} THEN prop.text
    ELSE IF prop.type = "number"
         THEN (IF prop.hasNum THEN NumberToString(prop.num) ELSE null)
    ELSE IF prop.type = "date" THEN prop.text
    ELSE IF prop.type = "multi_select" THEN Join(prop.parts, <<","," ">>)
    ELSE null

\* Mutant of getFirstExistingProp: skips a candidate that carries no value
getFirstPopulatedProp(props, candidates) ==
    LET has == {i \in 1..Len(candidates) :
                   /\ props[candidates[i]].type # "undefined"
                   /\ asPlainText(props[candidates[i]]) # null}
    IN  IF has = {} THEN Blank
        ELSE props[candidates[CHOOSE i \in has : \A j \in has : i <= j]]

\* the first candidate the page has at all (any property object is truthy),
\* whether or not it carries a value; Blank (null) when it has none
getFirstExistingProp(props, candidates) ==
    LET has == {i \in 1..Len(candidates) : props[candidates[i]].type # "undefined"}
    IN  IF has = {} THEN Blank
        ELSE props[candidates[CHOOSE i \in has : \A j \in has : i <= j]]

\* the ISO instant text of s, null (undefined) for no text or an unparseable one
toISODate(s, tzMin, eng) ==
    IF ~truthy(s) THEN null
    ELSE LET d == NewDate(s, tzMin, eng)
         IN  IF ~d.valid THEN null ELSE toISOString(d)

\* Mutant of progressFromStatus: compares without trimming
progressFromStatus_NoTrim(status) ==
    IF toLowerCase(orEmpty(status)) = <<"c","o","m","p","l","e","t","e","d">> THEN 100 ELSE 0

progressFromStatus(status) ==
    LET s == toLowerCase(trim(orEmpty(status)))
    IN  IF s = <<"c","o","m","p","l","e","t","e","d">> THEN 100 ELSE 0

\* Mutant of deriveOverallStatus: tests Skipped before In Progress
deriveOverallStatus_SkippedFirst(py, llm) ==
    LET sPy == toLowerCase(orEmpty(py))
        sLlm == toLowerCase(orEmpty(llm))
        isPyDone == sPy = <<"c","o","m","p","l","e","t","e","d">>
        isLlmDone == sLlm = <<"c","o","m","p","l","e","t","e","d">>
        anyInProg == sPy = <<"i","n"," ","p","r","o","g","r","e","s","s">> \/ sLlm = <<"i","n"," ","p","r","o","g","r","e","s","s">>
        anySkipped == (sPy = <<"s","k","i","p","p","e","d">> \/ sLlm = <<"s","k","i","p","p","e","d">>)
                      /\ ~isPyDone /\ ~isLlmDone
    IN  IF isPyDone /\ isLlmDone THEN "Done"
        ELSE IF anySkipped THEN "Skipped"
        ELSE IF anyInProg THEN "In Progress"
        ELSE "Not Started"

\* Mutant of deriveOverallStatus: Done as soon as one topic is completed
deriveOverallStatus_AnyDone(py, llm) ==
    LET sPy == toLowerCase(orEmpty(py))
        sLlm == toLowerCase(orEmpty(llm))
        isPyDone == sPy = <<"c","o","m","p","l","e","t","e","d">>
        isLlmDone == sLlm = <<"c","o","m","p","l","e","t","e","d">>
        anyInProg == sPy = <<"i","n"," ","p","r","o","g","r","e","s","s">> \/ sLlm = <<"i","n"," ","p","r","o","g","r","e","s","s">>
        anySkipped == (sPy = <<"s","k","i","p","p","e","d">> \/ sLlm = <<"s","k","i","p","p","e","d">>)
                      /\ ~isPyDone /\ ~isLlmDone
    IN  IF isPyDone \/ isLlmDone THEN "Done"
        ELSE IF anyInProg THEN "In Progress"
        ELSE IF anySkipped THEN "Skipped"
        ELSE "Not Started"

deriveOverallStatus(py, llm) ==
    LET sPy == toLowerCase(orEmpty(py))
        sLlm == toLowerCase(orEmpty(llm))
        isPyDone == sPy = <<"c","o","m","p","l","e","t","e","d">>
        isLlmDone == sLlm = <<"c","o","m","p","l","e","t","e","d">>
        anyInProg == sPy = <<"i","n"," ","p","r","o","g","r","e","s","s">> \/ sLlm = <<"i","n"," ","p","r","o","g","r","e","s","s">>
        anySkipped == (sPy = <<"s","k","i","p","p","e","d">> \/ sLlm = <<"s","k","i","p","p","e","d">>)
                      /\ ~isPyDone /\ ~isLlmDone
    IN  IF isPyDone /\ isLlmDone THEN "Done"
        ELSE IF anyInProg THEN "In Progress"
        ELSE IF anySkipped THEN "Skipped"
        ELSE "Not Started"

\* overallPct of mapPage
overallFromTopics(pythonPct, llmPct) ==
    IF pythonPct = 100 /\ llmPct = 100 THEN 100 ELSE 0

\* page.properties ?? {}
propsOf(pg) == IF pg.hasProperties THEN pg.properties ELSE [f \in FieldNames |-> Blank]

mapPage(pg, tzMin, eng) ==
    LET props == propsOf(pg)
        dayProp == getFirstExistingProp(props, FIELD_dateCandidates)
        dateISO == toISODate(asPlainText(dayProp), tzMin, eng)
        pythonStatus == asPlainText(props[FIELD_pythonStatus])
        llmStatus == asPlainText(props[FIELD_llmStatus])
        pythonTopic == asPlainText(props[FIELD_pythonTopic])
        llmTopic == asPlainText(props[FIELD_llmTopic])
        pythonPct == progressFromStatus(pythonStatus)
        llmPct == progressFromStatus(llmStatus)
        overallPct == overallFromTopics(pythonPct, llmPct)
        status == deriveOverallStatus(pythonStatus, llmStatus)
    IN  [date |-> dateISO, status |-> status, hours |-> 0,
         pythonTopic |-> pythonTopic, llmTopic |-> llmTopic,
         pythonPct |-> pythonPct, llmPct |-> llmPct, overallPct |-> overallPct]

\* no record yet
NoRow ==
    [date |-> null, status |-> "", hours |-> 0, pythonTopic |-> null,
     llmTopic |-> null, pythonPct |-> -1, llmPct |-> -1, overallPct |-> -1]

\* a page without properties
NoPage == [hasProperties |-> FALSE, properties |-> [f \in FieldNames |-> Blank]]

(***************************************************************************)
(* The state of a part of the program that the specification at hand       *)
(* leaves alone.                                                           *)
(***************************************************************************)
\* no KPIs computed yet
NoKpis == [total |-> -1, done |-> -1, open |-> -1, completion |-> -1, streak |-> -1]

MapIdle == page = NoPage /\ row = NoRow
DateIdle == text = null /\ parsed = NotParsed
\* a chart that has not been drawn yet
NotDrawn == <<[drawn |-> FALSE]>>

DialogClosed ==
    /\ selectedWeekStart = NoDate
    /\ selectedWeekRows = << >>
    /\ openDialog = FALSE
DashIdle ==
    /\ filtered = << >>
    /\ kpis = NoKpis
    /\ topicFocus = "both"
    /\ velocity = NotDrawn
    /\ burnup = NotDrawn
    /\ topicBars = NotDrawn
    /\ DialogClosed
IngestIdle ==
    /\ reqDb = null
    /\ env = [NOTION_API_KEY |-> <<"s","e","c","r","e","t">>, NOTION_DATABASE_ID |-> <<"m","a","i","n">>]
    /\ source = << >>
    /\ pc = "off"
    /\ database_id = null
    /\ cursor = 0
    /\ rows = << >>
    /\ queries = << >>
    /\ served = << >>
    /\ responses = << >>
    /\ rejectedAt = 0

ViewIdle ==
    /\ data = << >>
    /\ dateRange = "all"
    /\ loading = TRUE
    /\ error = null
    /\ lastLoaded = NoDate
    /\ calls = << >>
(***************************************************************************)
(* lib/notion getProgressData and the GET handler of                       *)
(* app/api/notion/progress/route.ts.                                       *)
(*                                                                         *)
(* The handler is asynchronous: it runs to its first query to Notion, and  *)
(* resumes each time a query resolves or rejects.  Notion holds one        *)
(* sequence of raw pages per database and serves it in pages, each with    *)
(* has_more and the cursor of the next one; a cursor is the number of raw  *)
(* pages served before it (0: none, JavaScript's undefined / null).        *)
(***************************************************************************)
MaxRecords == 3       \* the longest database
MaxPerPage == 2       \* the most raw pages in one answer (page_size)

MainDb == <<"m","a","i","n">>
AltDb == <<"a","l","t">>
KnownDatabases == {MainDb, AltDb}

RawDone ==
    [hasProperties |-> TRUE,
     properties |-> [f \in FieldNames |->
        IF f = "Day" THEN DateProp(<<"2","0","2","4","-","0","3","-","0","5">>)
        ELSE IF f \in {FIELD_pythonStatus, FIELD_llmStatus} THEN StatusProp(<<"C","o","m","p","l","e","t","e","d">>)
        ELSE Blank]]

RawStarted ==
    [hasProperties |-> TRUE,
     properties |-> [f \in FieldNames |->
        IF f = "Date" THEN FormulaDate(<<"2","0","2","4","-","0","3","-","0","6">>)
        ELSE IF f = FIELD_pythonStatus THEN StatusProp(<<"I","n"," ","p","r","o","g","r","e","s","s">>)
        ELSE IF f = FIELD_pythonTopic THEN RichTextProp(<<<<"L","i","s","t","s">>>>)
        ELSE Blank]]

RawPages == {RawDone, RawStarted, NoPage}

RECURSIVE SeqsUpTo(_, _)
\* the sequences over S of length at most n
SeqsUpTo(S, n) ==
    IF n = 0 THEN {<< >>}
    ELSE SeqsUpTo(S, n - 1) \cup
         {Append(q, x) : q \in {r \in SeqsUpTo(S, n - 1) : Len(r) = n - 1}, x \in S}

\* what Notion holds under a database id
Contents(id, src) == IF id = MainDb THEN src ELSE <<RawStarted, RawDone>>

\* Notion's answer to a query at cursor cur that serves n raw pages
QueryResult(all, cur, n) ==
    [results |-> SubSeq(all, cur + 1, cur + n),
     has_more |-> cur + n < Len(all),
     next_cursor |-> IF cur + n < Len(all) THEN cur + n ELSE 0]

\* how many raw pages an answer may carry when left remain
ChunkSizes(left) == IF left = 0 THEN {0} ELSE 1..(IF left < MaxPerPage THEN left ELSE MaxPerPage)

EnvInputs ==
    { [NOTION_API_KEY |-> <<"s","e","c","r","e","t">>, NOTION_DATABASE_ID |-> MainDb],
      [NOTION_API_KEY |-> <<"s","e","c","r","e","t">>, NOTION_DATABASE_ID |-> null],
      [NOTION_API_KEY |-> << >>, NOTION_DATABASE_ID |-> MainDb] }

\* EnvSchema: both are strings of at least one character
EnvSchemaAccepts(e) == truthy(e.NOTION_API_KEY) /\ truthy(e.NOTION_DATABASE_ID)

\* QuerySchema: db is undefined or a string; z.string() sets no least length
QuerySchemaAccepts(db) == db = null \/ Len(db) >= 0

\* databaseIdOverride ?? NOTION_DATABASE_ID: only null / undefined give way
DatabaseIdOf(override, e) == IF override # null THEN override ELSE e.NOTION_DATABASE_ID

BadQuery == [status |-> 400, success |-> FALSE, code |-> "BAD_QUERY", data |-> << >>]
ServerError == [status |-> 500, success |-> FALSE, code |-> "SERVER_ERROR", data |-> << >>]
Success(rs) == [status |-> 200, success |-> TRUE, code |-> "", data |-> rs]

HasISODate(r) == r.date # null

\* Mutant of MapRows: drops the records that carry no date
MapRows_DatedOnly(rs, tzMin, eng) ==
    SelectSeq([i \in 1..Len(rs) |-> mapPage(rs[i], tzMin, eng)], HasISODate)

\* rows.map(mapPage).filter(Boolean): mapPage returns an object for every
\* page and every object is truthy
MapRows(rs, tzMin, eng) == [i \in 1..Len(rs) |-> mapPage(rs[i], tzMin, eng)]

\* the db parameter: absent, empty, the other database, an unknown one
DbInputs == {null, << >>, AltDb, <<"n","o","p","e">>}

InitIngest ==
    /\ reqDb \in DbInputs
    /\ env \in EnvInputs
    /\ source \in SeqsUpTo(RawPages, MaxRecords)
    /\ pc = "idle"
    /\ database_id = null
    /\ cursor = 0
    /\ rows = << >>
    /\ queries = << >>
    /\ served = << >>
    /\ responses = << >>
    /\ rejectedAt = 0

Init ==
    /\ InitIngest
    /\ MapIdle
    /\ DateIdle
    /\ DashIdle
    /\ ViewIdle
    /\ now = Now0
    /\ tz \in {0, 330}
    /\ engine \in Engines

\* GET from its start to the first query: the query parameter is validated,
\* the environment is read, the loop sends its first query
Get ==
    /\ pc = "idle"
    /\ IF ~QuerySchemaAccepts(reqDb)
       THEN /\ responses' = Append(responses, BadQuery)
            /\ pc' = "done"
            /\ UNCHANGED <<database_id, cursor, rows, queries>>
       ELSE IF ~EnvSchemaAccepts(env)
       THEN /\ responses' = Append(responses, ServerError)
            /\ pc' = "done"
            /\ UNCHANGED <<database_id, cursor, rows, queries>>
       ELSE /\ database_id' = DatabaseIdOf(reqDb, env)
            /\ rows' = << >>
            /\ cursor' = 0
            /\ queries' = Append(queries, [database_id |-> DatabaseIdOf(reqDb, env),
                                           start_cursor |-> 0])
            /\ pc' = "querying"
            /\ UNCHANGED responses
    /\ UNCHANGED <<reqDb, env, source, served, rejectedAt, mapVars, dateVars, dashVars, clockVars, viewVars>>

\* Mutant of AfterQuery: the next query is sent with the cursor of the query
\* before it
AfterQuery_StaleCursor(res, allRows) ==
    /\ rows' = allRows
    /\ IF ~res.has_more \/ res.next_cursor = 0
       THEN /\ responses' = Append(responses, Success(MapRows(allRows, tz, engine)))
            /\ pc' = "done"
            /\ UNCHANGED <<cursor, queries>>
       ELSE /\ cursor' = res.next_cursor
            /\ queries' = Append(queries, [database_id |-> database_id,
                                           start_cursor |-> cursor])
            /\ UNCHANGED <<pc, responses>>

\* the loop body after the answer res, allRows being rows with its results
AfterQuery(res, allRows) ==
    /\ rows' = allRows
    /\ IF ~res.has_more \/ res.next_cursor = 0
       THEN /\ responses' = Append(responses, Success(MapRows(allRows, tz, engine)))
            /\ pc' = "done"
            /\ UNCHANGED <<cursor, queries>>
       ELSE /\ cursor' = res.next_cursor
            /\ queries' = Append(queries, [database_id |-> database_id,
                                           start_cursor |-> res.next_cursor])
            /\ UNCHANGED <<pc, responses>>

\* Notion answers the pending query with res
Answered(res) ==
    /\ served' = Append(served, [has_more |-> res.has_more, next_cursor |-> res.next_cursor])
    /\ AfterQuery(res, rows \o res.results)

\* the pending query resolves
QueryResolves ==
    /\ pc = "querying"
    /\ database_id \in KnownDatabases
    /\ \E n \in ChunkSizes(Len(Contents(database_id, source)) - cursor) :
          Answered(QueryResult(Contents(database_id, source), cursor, n))
    /\ UNCHANGED <<reqDb, env, source, database_id, rejectedAt, mapVars, dateVars, dashVars, clockVars, viewVars>>

\* Mutant of QueryRejects: answers with the records fetched so far
QueryRejects_Partial ==
    /\ pc = "querying"
    /\ responses' = Append(responses, Success(MapRows(rows, tz, engine)))
    /\ pc' = "done"
    /\ rejectedAt' = Len(queries)
    /\ UNCHANGED <<reqDb, env, source, database_id, cursor, rows, queries, served,
                   mapVars, dateVars, dashVars, clockVars, viewVars>>

\* the pending query rejects (Notion refuses it or cannot be reached): the
\* exception leaves getProgressData and is caught by GET
QueryRejects ==
    /\ pc = "querying"
    /\ responses' = Append(responses, ServerError)
    /\ pc' = "done"
    /\ rejectedAt' = Len(queries)
    /\ UNCHANGED <<reqDb, env, source, database_id, cursor, rows, queries, served,
                   mapVars, dateVars, dashVars, clockVars, viewVars>>

Next == Get \/ QueryRejects \/ QueryResolves

Spec == Init /\ [][Next]_vars

\* the handler goes on whenever it can: the event loop runs it at its start
\* and resumes it once the promise of the pending query has settled
FairSpec == Spec /\ WF_vars(Next)

(***************************************************************************)
(* Properties of ingestion and of the endpoint (checked under Spec).       *)
(***************************************************************************)
Responded == pc = "done" /\ responses # << >>

\* C4: when every page of the data source is fetched successfully,
\* getProgressData returns exactly one progress record for every raw record of
\* the source, in the order the source returned them.
C4_OneRecordPerRaw ==
    (Responded /\ rejectedAt = 0 /\ EnvSchemaAccepts(env)) =>
        /\ Len(responses) = 1
        /\ responses[1].success
        /\ Len(responses[1].data) = Len(Contents(database_id, source))
        /\ \A i \in 1..Len(Contents(database_id, source)) :
              responses[1].data[i] = mapPage(Contents(database_id, source)[i], tz, engine)

\* C4 witness: a source of three raw records, one without properties and one
\* without a date, was fetched in more than one page and fully returned
C4_Witness ==
    /\ Responded /\ rejectedAt = 0
    /\ Len(queries) >= 2
    /\ source = <<RawDone, NoPage, RawStarted>>
    /\ database_id = MainDb
    /\ Len(responses[1].data) = 3
    /\ responses[1].data[2].date = null

\* C5: a failure to fetch any page of the source aborts the request, which
\* then produces exactly one SERVER_ERROR response (and no further query).
C5_FailureAborts ==
    /\ Len(responses) <= 1
    /\ rejectedAt > 0 =>
          /\ pc = "done"
          /\ responses = <<ServerError>>
          /\ Len(queries) = rejectedAt

\* C5 witness: the second page failed after the first had been fetched
C5_Witness ==
    /\ rejectedAt = 2
    /\ rows # << >>
    /\ responses = <<ServerError>>

\* C6: a request whose db parameter is present but empty is rejected as
\* BAD_QUERY and starts no ingestion (the environment being well configured).
C6_EmptyDbIsBadQuery ==
    (reqDb = << >> /\ EnvSchemaAccepts(env) /\ pc # "idle") =>
        /\ queries = << >>
        /\ responses = <<BadQuery>>

\* C6 reached: the request with an empty db parameter queried Notion for the
\* database "" and was answered SERVER_ERROR
C6_Witness ==
    /\ reqDb = << >>
    /\ queries = <<[database_id |-> << >>, start_cursor |-> 0]>>
    /\ responses = <<ServerError>>


\* the later queries, each sent with the cursor of the page served before it
CursorChain ==
    \A k \in 2..Len(queries) :
        /\ k - 1 <= Len(served)
        /\ served[k - 1].has_more
        /\ served[k - 1].next_cursor # 0
        /\ queries[k].start_cursor = served[k - 1].next_cursor

\* at most one query awaits its page, and none is sent before the page of
\* the query before it was served
OneAtATime == Len(served) <= Len(queries) /\ Len(queries) <= Len(served) + 1

\* the run has ended and every query of it was served its page
Fetched == pc = "done" /\ rejectedAt = 0

\* C18: the page queries of a run are issued one at a time, the first with
\* no cursor and each later one with the cursor the page before it returned,
\* after that page arrived; and the run terminates, with exactly one query
\* per page served when every query was served.
C18_Sequential ==
    /\ [](queries # << >> => queries[1].start_cursor = 0)
    /\ []CursorChain
    /\ []OneAtATime
    /\ [](Fetched => Len(queries) = Len(served))
    /\ <>(pc = "done")

\* C18 witness: a source of three raw records was served in three pages, to
\* three queries with the cursors none, 1 and 2
C18_Witness ==
    /\ Fetched
    /\ Len(served) = 3
    /\ Len(rows) = 3
    /\ queries = <<[database_id |-> MainDb, start_cursor |-> 0],
                   [database_id |-> MainDb, start_cursor |-> 1],
                   [database_id |-> MainDb, start_cursor |-> 2]>>
    /\ served[3] = [has_more |-> FALSE, next_cursor |-> 0]
(***************************************************************************)
(* SpecMap: mapPage applied to one raw page drawn from the bounded inputs. *)
(***************************************************************************)
StatusInputs ==
    { Blank, StatusProp(null),
      StatusProp(<<"C","o","m","p","l","e","t","e","d">>), SelectProp(<<"c","o","m","p","l","e","t","e","d">>),
      StatusProp(<<" ","C","o","m","p","l","e","t","e","d"," ">>), StatusProp(<<"I","n"," ","p","r","o","g","r","e","s","s">>),
      SelectProp(<<"S","k","i","p","p","e","d">>), StatusProp(<<"N","o","t"," ","s","t","a","r","t","e","d">>),
      RichTextProp(<<<<"C","O","M","P">>, <<"L","E","T","E","D">>>>) }

DayInputs ==
    { Blank, DateProp(null), DateProp(<<"2","0","2","4","-","0","3","-","0","5">>),
      DateProp(<<"2","0","2","4","-","0","3","-","0","5","T","2","2",":","0","0",":","0","0",".","0","0","0","-","0","5",":","0","0">>), RichTextProp(<<<<"s","o","o","n">>>>) }

DateInputs == { Blank, DateProp(null), FormulaDate(<<"2","0","2","4","-","0","3","-","0","6">>) }

PythonTopicInputs ==
    { Blank, RichTextProp(<<<<"L","i","s","t","s">>, null, <<" ","I","I">>>>),
      MultiSelectProp(<<<<"I","O">>, <<"F","i","l","e","s">>>>), NumberProp(12) }

LlmTopicInputs == { TitleProp(<< >>), FormulaBoolean("true"), FormulaNumber(-3) }

PageInputs ==
    { [hasProperties |-> TRUE,
       properties |-> [f \in FieldNames |->
            IF f = "Day" THEN day
            ELSE IF f = "Date" THEN dt
            ELSE IF f = FIELD_pythonStatus THEN py
            ELSE IF f = FIELD_llmStatus THEN llm
            ELSE IF f = FIELD_pythonTopic THEN pt
            ELSE lt]] :
        day \in DayInputs, dt \in DateInputs, py \in StatusInputs,
        llm \in StatusInputs, pt \in PythonTopicInputs, lt \in LlmTopicInputs }
    \cup { [hasProperties |-> FALSE, properties |-> [f \in FieldNames |-> Blank]] }

TimeZones == {0, 330}

InitMap ==
    /\ page \in PageInputs
    /\ row = NoRow
    /\ tz \in TimeZones
    /\ engine \in Engines
    /\ now = Now0
    /\ DateIdle
    /\ IngestIdle
    /\ ViewIdle
    /\ DashIdle

MapPage ==
    /\ row = NoRow
    /\ row' = mapPage(page, tz, engine)
    /\ UNCHANGED <<page, dateVars, ingestVars, dashVars, clockVars, viewVars>>

NextMap == MapPage

SpecMap == InitMap /\ [][NextMap]_vars

(***************************************************************************)
(* Properties of the record mapper (checked under SpecMap).                *)
(***************************************************************************)
\* the raw status texts mapPage read from the page
RawPy == asPlainText(propsOf(page)[FIELD_pythonStatus])
RawLlm == asPlainText(propsOf(page)[FIELD_llmStatus])
LowPy == toLowerCase(orEmpty(RawPy))
LowLlm == toLowerCase(orEmpty(RawLlm))
Mapped == row # NoRow

\* C1: the derived status is one of Done, In Progress, Skipped, Not Started and
\* follows the fixed order: both lowercased texts "completed" gives Done;
\* otherwise either "in progress" gives In Progress; otherwise either "skipped"
\* with neither "completed" gives Skipped; otherwise Not Started.
C1_StatusOrder ==
    Mapped =>
        LET bothDone == LowPy = <<"c","o","m","p","l","e","t","e","d">> /\ LowLlm = <<"c","o","m","p","l","e","t","e","d">>
            anyInProg == <<"i","n"," ","p","r","o","g","r","e","s","s">> \in {LowPy, LowLlm}
            anySkipped == <<"s","k","i","p","p","e","d">> \in {LowPy, LowLlm}
                          /\ <<"c","o","m","p","l","e","t","e","d">> \notin {LowPy, LowLlm}
        IN  /\ row.status \in {"Done", "In Progress", "Skipped", "Not Started"}
            /\ row.status = "Done" <=> bothDone
            /\ row.status = "In Progress" <=> (~bothDone /\ anyInProg)
            /\ row.status = "Skipped" <=> (~bothDone /\ ~anyInProg /\ anySkipped)
            /\ row.status = "Not Started" <=> (~bothDone /\ ~anyInProg /\ ~anySkipped)
            /\ (LowPy = <<"c","o","m","p","l","e","t","e","d">> /\ LowLlm = <<"i","n"," ","p","r","o","g","r","e","s","s">>)
                  => row.status = "In Progress"
            /\ (LowPy = <<"i","n"," ","p","r","o","g","r","e","s","s">> /\ LowLlm = <<"s","k","i","p","p","e","d">>)
                  => row.status = "In Progress"

\* C1 witness: "in progress" on one topic met "skipped" on the other
C1_Witness ==
    Mapped /\ LowPy = <<"i","n"," ","p","r","o","g","r","e","s","s">> /\ LowLlm = <<"s","k","i","p","p","e","d">>
    /\ row.status = "In Progress"

\* C2: the three percentages are 0 or 100, overallPct is 100 exactly when both
\* topic percentages are, and a topic percentage is 100 exactly when its
\* status text, lowercased and trimmed, is "completed".
C2_Percentages ==
    Mapped =>
        /\ {row.pythonPct, row.llmPct, row.overallPct} \subseteq {0, 100}
        /\ row.overallPct = 100 <=> (row.pythonPct = 100 /\ row.llmPct = 100)
        /\ row.pythonPct = 100 <=> trim(toLowerCase(orEmpty(RawPy))) = <<"c","o","m","p","l","e","t","e","d">>
        /\ row.llmPct = 100 <=> trim(toLowerCase(orEmpty(RawLlm))) = <<"c","o","m","p","l","e","t","e","d">>

\* C2 witness: a padded " Completed " counted as 100 and made the overall 100
C2_Witness ==
    Mapped /\ RawPy = <<" ","C","o","m","p","l","e","t","e","d"," ">> /\ RawLlm = <<"c","o","m","p","l","e","t","e","d">>
    /\ row.pythonPct = 100 /\ row.overallPct = 100

\* C3: a record whose status is Done has overallPct = 100.
C3_DoneImpliesOverall == (Mapped /\ row.status = "Done") => row.overallPct = 100

\* C3 witness: a record mapped to Done
C3_Witness == Mapped /\ row.status = "Done" /\ row.overallPct = 100

\* C21: conversely, for every pair of raw status texts, padded ones such as
\* " Completed " included, a record whose overallPct is 100 has the status
\* Done.
C21_OverallImpliesDone == (Mapped /\ row.overallPct = 100) => row.status = "Done"

\* C21 reached: the padded " Completed " next to "Completed" gave the overall
\* percentage 100 and the status Not Started
C21_Witness ==
    /\ Mapped
    /\ RawPy = <<" ","C","o","m","p","l","e","t","e","d"," ">> /\ RawLlm = <<"C","o","m","p","l","e","t","e","d">>
    /\ row.pythonPct = 100 /\ row.llmPct = 100 /\ row.overallPct = 100
    /\ row.status = "Not Started"

\* the date candidates of the page
DayField == propsOf(page)["Day"]
DateField == propsOf(page)["Date"]
\* the candidate carries a text that parses as a date
Parseable(prop) ==
    /\ truthy(asPlainText(prop))
    /\ NewDate(asPlainText(prop), tz, engine).valid
\* the record's date is the instant the candidate's text denotes
DateIsFrom(prop) ==
    /\ row.date # null
    /\ NewDate(row.date, tz, engine) = NewDate(asPlainText(prop), tz, engine)

\* C9 as claimed: the date comes from the first candidate (Day, then Date) that
\* carries a value, so an empty Day falls back to a valid Date, and the date is
\* absent only when no candidate carries a parseable value.
C9_FirstPopulated ==
    Mapped =>
        /\ (DayField.type # "undefined" /\ asPlainText(DayField) = null
            /\ Parseable(DateField)) => DateIsFrom(DateField)
        /\ row.date = null => (~Parseable(DayField) /\ ~Parseable(DateField))

\* C9 as amended: the date comes from the first candidate (Day, then Date) the
\* page has at all, whether or not it carries a value: a page with a Day
\* property takes its date from Day alone (absent when Day is empty or does
\* not parse, whatever Date holds), and only a page without a Day property
\* takes it from Date.
C9_FirstExisting ==
    Mapped =>
        /\ DayField.type # "undefined" =>
              IF Parseable(DayField) THEN DateIsFrom(DayField) ELSE row.date = null
        /\ DayField.type = "undefined" =>
              IF Parseable(DateField) THEN DateIsFrom(DateField) ELSE row.date = null

\* C9 witness: Day is there but empty, Date holds a valid date, no date results
C9_Witness ==
    Mapped /\ DayField.type = "date" /\ asPlainText(DayField) = null
    /\ Parseable(DateField) /\ row.date = null

(***************************************************************************)
(* components/ProgressDashboard.tsx: parseUTC, the date normalizer.        *)
(***************************************************************************)
\* a general parse is kept only when its UTC year is beyond this one
SensibleYear == 2015

\* UTC midnight of the day of nowT
TodayUTC(nowT) == DateUTC(getUTCFullYear(nowT), getUTCMonth(nowT), getUTCDate(nowT))

\* `${mon} ${day}, ${y} UTC`
MonthDayYearText(mon, day, y) ==
    mon \o <<" ">> \o day \o <<","," ">> \o NumberToString(y) \o <<" ","U","T","C">>

\* Mutant of parseUTCNative: keeps the general parse whatever its year
parseUTCNative_NoYearGuard(native, sc, nowT, tzMin, eng) ==
    IF native.valid THEN native
    ELSE IF IsMonthDayScan(sc)
    THEN NewDate(MonthDayYearText(sc.v[1], sc.v[3], getUTCFullYear(nowT)), tzMin, eng)
    ELSE TodayUTC(nowT)

\* Mutant of parseUTCNative: the last resort is the current instant, not its day
parseUTCNative_NowUnfloored(native, sc, nowT, tzMin, eng) ==
    IF native.valid /\ getUTCFullYear(native) > SensibleYear THEN native
    ELSE IF IsMonthDayScan(sc)
    THEN NewDate(MonthDayYearText(sc.v[1], sc.v[3], getUTCFullYear(nowT)), tzMin, eng)
    ELSE nowT

\* parseUTC from the general parse on: native is new Date(s), sc the scan of s
\* without a leading weekday
parseUTCNative(native, sc, nowT, tzMin, eng) ==
    IF native.valid /\ getUTCFullYear(native) > SensibleYear THEN native
    ELSE IF IsMonthDayScan(sc)
    THEN NewDate(MonthDayYearText(sc.v[1], sc.v[3], getUTCFullYear(nowT)), tzMin, eng)
    ELSE TodayUTC(nowT)

\* parseUTC(s) at the instant nowT for a non-empty text s whose scan is sc
parseUTCOfScan(s, sc, nowT, tzMin, eng) ==
    IF IsISODateScan(sc) THEN NewDate(s \o <<"T","0","0",":","0","0",":","0","0","Z">>, tzMin, eng)
    ELSE parseUTCNative(NewDateOfScan(sc, tzMin, eng), StripWeekday(sc), nowT, tzMin, eng)

\* parseUTC(s) at the instant nowT; NoDate is its null
parseUTC(s, nowT, tzMin, eng) ==
    IF ~truthy(s) THEN NoDate ELSE parseUTCOfScan(s, Scan(s), nowT, tzMin, eng)

(***************************************************************************)
(* SpecDate: parseUTC applied to one text drawn from the bounded inputs,   *)
(* at one of a few instants, in one of a few time zones, on either engine. *)
(***************************************************************************)
DateTexts ==
    { null, << >>, <<" "," ">>, <<"g","a","r","b","a","g","e">>,
      <<"2","0","2","4","-","0","3","-","0","5">>, <<"1","9","9","9","-","0","5","-","0","5">>, <<"2","0","2","4","-","1","3","-","4","5">>, <<"2","0","2","3","-","0","2","-","3","0">>,
      <<"2","0","2","4","-","0","3","-","0","5","T","0","0",":","0","0",":","0","0",".","0","0","0","Z">>, <<"2","0","2","4","-","0","3","-","0","5","T","2","2",":","3","0",":","0","0",".","0","0","0","-","0","5",":","0","0">>,
      <<"2","0","1","5","-","1","2","-","3","1","T","2","3",":","5","9",":","5","9",".","9","9","9","Z">>, <<"2","0","1","6","-","0","1","-","0","1","T","0","0",":","0","0",":","0","0",".","0","0","0","Z">>,
      <<"M","a","r"," ","5",","," ","2","0","2","4">>, <<"J","a","n"," ","1",","," ","2","0","1","6">>, <<"D","e","c"," ","3","1",","," ","1","9","9","9"," ","U","T","C">>,
      <<"J","a","n"," ","0","5">>, <<"M","o","n",","," ","J","a","n"," ","0","1">>, <<"M","o","n",",","j","a","n"," ","1">>, <<"F","e","b"," ","2","9">>, <<"F","e","b"," ","3","0">>,
      <<"J","a","n"," ","4","5">>, <<"F","o","o"," ","1","2">>, <<"J","a","n"," "," ","0","5">>, <<" ","J","a","n"," ","0","5">>, <<"J","a","n"," ","0","5",",">> }

DateZones == {-300, 0, 330}

\* 2026-12-31T23:59:59.999Z and 2028-02-29T00:00:00.000Z
Now1 == Instant(DaysFromCivil(2026, 12, 31), MsPerDay - 1)
Now2 == Instant(DaysFromCivil(2028, 2, 29), 0)
Nows == {Now0, Now1, Now2}

InitDate ==
    /\ text \in DateTexts
    /\ parsed = NotParsed
    /\ now \in Nows
    /\ tz \in DateZones
    /\ engine \in Engines
    /\ MapIdle
    /\ IngestIdle
    /\ ViewIdle
    /\ DashIdle

ParseUTC ==
    /\ parsed = NotParsed
    /\ parsed' = parseUTC(text, now, tz, engine)
    /\ UNCHANGED <<mapVars, text, ingestVars, dashVars, clockVars, viewVars>>

NextDate == ParseUTC

SpecDate == InitDate /\ [][NextDate]_vars

(***************************************************************************)
(* Properties of the date normalizer (checked under SpecDate).             *)
(***************************************************************************)
Parsed == parsed # NotParsed
Native == NewDate(text, tz, engine)
NativeKept == Native.valid /\ getUTCFullYear(Native) > SensibleYear
TextScan == Scan(text)
MonthDayForm == IsMonthDayScan(StripWeekday(TextScan))
\* the text has one of the three recognised forms
Recognised == IsISODateText(text) \/ NativeKept \/ MonthDayForm
Today == Instant(now.day, 0)

\* C7 as claimed: for every input text parseUTC returns a timestamp, and for
\* an empty text or one of no recognised form that is UTC midnight of the
\* current UTC day.
C7_TotalToday ==
    Parsed =>
        /\ parsed.valid
        /\ (~truthy(text) \/ ~Recognised) => parsed = Today

\* C7 as amended: parseUTC never raises; it returns null exactly for an absent
\* or empty text; for a non-empty text of no recognised form it returns UTC
\* midnight of the current UTC day.
C7_NullOrToday ==
    Parsed =>
        /\ parsed = NoDate <=> ~truthy(text)
        /\ (truthy(text) /\ ~Recognised) => parsed = Today

\* C7 witness: a text of no recognised form was resolved to today's midnight
C7_Witness == Parsed /\ text = <<"g","a","r","b","a","g","e">> /\ parsed = Today /\ now.ms # 0

\* the fields of a text of the form YYYY-MM-DD
IsoY == NumOf(SubSeq(text, 1, 4))
IsoM == NumOf(SubSeq(text, 6, 7))
IsoD == NumOf(SubSeq(text, 9, 10))
IsCalendarDate(y, m, d) == m \in 1..12 /\ d \in 1..DaysInMonth(y, m)
\* the fields of a text of the form [Www, ]Mon D
MdM == MonthIndex(StripWeekday(TextScan).v[1])
MdD == NumOf(StripWeekday(TextScan).v[3])

Precision == 53

FZero == [m |-> << >>, e |-> 0]

RECURSIVE Pow2(_)
Pow2(n) == IF n = 0 THEN 1 ELSE 2 * Pow2(n - 1)

RECURSIVE BitsValue(_)
\* the number written by a short run of bits
BitsValue(b) == IF Len(b) = 0 THEN 0 ELSE 2 * BitsValue(SubSeq(b, 1, Len(b) - 1)) + b[Len(b)]

RECURSIVE BitsOf(_)
\* a number >= 0 written in binary without leading zeros
BitsOf(n) == IF n = 0 THEN << >> ELSE Append(BitsOf(n \div 2), n % 2)

\* b + 1 for a run of bits that are not all 1: the last 0 becomes 1 and the
\* 1s after it become 0
IncrementAt(b, j) == [i \in 1..Len(b) |-> IF i < j THEN b[i] ELSE IF i = j THEN 1 ELSE 0]

\* the significand m rounded up by one unit in the last place
RoundedUp(m, e) ==
    IF \A i \in 1..Len(m) : m[i] = 1
    THEN [m |-> [i \in 1..Len(m) |-> IF i = 1 THEN 1 ELSE 0], e |-> e + 1]
    ELSE [m |-> IncrementAt(m, Greatest({i \in 1..Len(m) : m[i] = 0})), e |-> e]

\* round to nearest, ties to even: b is a run of at least Precision + 1 bits
\* whose first is 1 and whose first bit has exponent e; sticky tells whether
\* the exact value has further non-zero bits after b
RoundToDouble(b, e, sticky) ==
    IF b[Precision + 1] = 1
       /\ (sticky \/ b[Precision] = 1 \/ \E i \in (Precision + 2)..Len(b) : b[i] = 1)
    THEN RoundedUp(SubSeq(b, 1, Precision), e)
    ELSE [m |-> SubSeq(b, 1, Precision), e |-> e]

\* the number n < 2^w written in binary with w bits
BitsOfWidth(n, w) == [i \in 1..w |-> (n \div Pow2(w - i)) % 2]

\* the bits a step of LongDivision and of TimesSmall handles: up to nine
StepWidth(n) == IF n >= 9 THEN 9 ELSE n

RECURSIVE LongDivision(_, _, _, _)
\* n further quotient bits of r / d (r < d), appended to acc; rem is what is left
LongDivision(r, d, n, acc) ==
    IF n = 0 THEN [bits |-> acc, rem |-> r]
    ELSE LongDivision((r * Pow2(StepWidth(n))) % d, d, n - StepWidth(n),
                      acc \o BitsOfWidth((r * Pow2(StepWidth(n))) \div d, StepWidth(n)))

RECURSIVE LeadShift(_, _)
\* the least k >= 0 with a * 2^k >= d, for 0 < a
LeadShift(a, d) == IF a >= d THEN 0 ELSE 1 + LeadShift(2 * a, d)

\* a / d for 0 < a < d from the quotient bits q that follow k - 1 zeros
FDivRounded(q, k) == RoundToDouble(q.bits, -k, q.rem # 0)
FDivShifted(a, d, k) == FDivRounded(LongDivision(a * Pow2(k - 1), d, Precision + 1, << >>), k)

\* the double a / d for integers 0 <= a <= d, d > 0
FDiv(a, d) ==
    IF a = 0 THEN FZero
    ELSE IF a = d THEN [m |-> [i \in 1..Precision |-> IF i = 1 THEN 1 ELSE 0], e |-> 0]
    ELSE FDivShifted(a, d, LeadShift(a, d))

\* m[i - w + 1 .. i] * c + carry, the step of TimesSmall on the last w bits
StepProduct(m, i, w, c, carry) == BitsValue(SubSeq(m, i - w + 1, i)) * c + carry

RECURSIVE TimesSmall(_, _, _, _)
\* the bits of m[1..i] * c + carry
TimesSmall(m, i, c, carry) ==
    IF i = 0 THEN BitsOf(carry)
    ELSE TimesSmall(m, i - StepWidth(i), c,
                    StepProduct(m, i, StepWidth(i), c, carry) \div Pow2(StepWidth(i)))
         \o BitsOfWidth(StepProduct(m, i, StepWidth(i), c, carry) % Pow2(StepWidth(i)),
                        StepWidth(i))

\* the exact product bits p of a significand of exponent e, rounded
FMulRounded(p, e) == RoundToDouble(p, e + Len(p) - Precision, FALSE)

\* the double x * c for a small integer c >= 2
FMul(x, c) == IF x = FZero THEN FZero ELSE FMulRounded(TimesSmall(x.m, Precision, c, 0), x.e)

\* Math.round for a double 0 <= x < 2^31: the integer part, plus one when the
\* fraction is a half or more
MathRound(x) ==
    IF x = FZero \/ x.e < -1 THEN 0
    ELSE BitsValue(SubSeq(x.m, 1, x.e + 1)) + x.m[x.e + 2]

(***************************************************************************)
(* components/ProgressDashboard.tsx: the KPIs.                             *)
(*                                                                         *)
(* An item is a record [date, pythonPct, llmPct, overallPct, missing,      *)
(* nulls]: date is the mapper's ISO instant text or null, missing names    *)
(* the percentage fields that are null or undefined, and nulls those of    *)
(* them that are null.                                                     *)
(***************************************************************************)
Item(date, py, llm, overall) ==
    [date |-> date, pythonPct |-> py, llmPct |-> llm, overallPct |-> overall,
     missing |-> {}, nulls |-> {}]

\* (d[f] ?? 0)
OrZero(d, f) == IF f \in d.missing THEN 0 ELSE d[f]

isDoneDay(d) ==
    \/ OrZero(d, "overallPct") >= 100
    \/ OrZero(d, "pythonPct") >= 100
    \/ OrZero(d, "llmPct") >= 100

\* utcDayKey, as an instant: t floored to its UTC day
utcDayKey(t) == Instant(t.day, 0)

\* the day keys of the dated rows of rs, as whole days since 1970-01-01
DayKeys(rs, nowT, tzMin, eng) ==
    { utcDayKey(parseUTC(rs[i].date, nowT, tzMin, eng)).day :
        i \in {j \in 1..Len(rs) : truthy(rs[j].date)} }

RECURSIVE StreakFrom(_, _)
\* the days counted back from the day c while each is a done day
StreakFrom(doneSet, c) == IF c \in doneSet THEN 1 + StreakFrom(doneSet, c - 1) ELSE 0

\* Mutant of StreakOf: counts the done days, gaps or not
StreakOf_CountDays(doneDayKeys) == Cardinality(doneDayKeys)

StreakOf(doneDayKeys) ==
    IF doneDayKeys = {} THEN 0 ELSE StreakFrom(doneDayKeys, Greatest(doneDayKeys))

\* total ? Math.round((done / total) * 100) : 0, in double arithmetic
CompletionOf(done, total) ==
    IF total # 0 THEN MathRound(FMul(FDiv(done, total), 100)) ELSE 0

KpisOf(total, doneRows, nowT, tzMin, eng) ==
    [total |-> total,
     done |-> Len(doneRows),
     open |-> total - Len(doneRows),
     completion |-> CompletionOf(Len(doneRows), total),
     streak |-> StreakOf(DayKeys(doneRows, nowT, tzMin, eng))]

\* the kpis memo of the filtered records f
Kpis(f, nowT, tzMin, eng) == KpisOf(Len(f), SelectSeq(f, isDoneDay), nowT, tzMin, eng)

(***************************************************************************)
(* components/ProgressDashboard.tsx: the chart series.                     *)
(*                                                                         *)
(* A mean is kept as the pair [sum, n] of what d3.mean divides, its value  *)
(* being the double nearest to sum / n.                                    *)
(***************************************************************************)
TopicFocuses == {"both", "python", "llm"}

\* utcWeekKey, as an instant: t floored to its UTC Monday (1970-01-01 was a
\* Thursday)
utcWeekKey(t) == Instant(t.day - ((t.day + 3) % 7), 0)

RECURSIVE Ascending(_)
\* the numbers of a finite set in ascending order
Ascending(S) == IF S = {} THEN << >> ELSE <<Least(S)>> \o Ascending(S \ {Least(S)})

\* whether a row carries a date, and whether it is a done row that does
HasDate(r) == truthy(r.date)
IsDatedDone(r) == truthy(r.date) /\ isDoneDay(r)

\* an array with the elements of the sequence f
ArrayOf(f) == << >> \o f

\* data.map((r) => r.date ? parseUTC(r.date) : null): each row's derived date
ParsedDates(rs, nowT, tzMin, eng) ==
    ArrayOf([i \in 1..Len(rs) |->
                IF truthy(rs[i].date) THEN parseUTC(rs[i].date, nowT, tzMin, eng) ELSE NoDate])

\* the rows I of rs, each with the key of its date: <<index, utcWeekKey>>
WeekKeysOf(ds, I) == { <<i, utcWeekKey(ds[i]).day>> : i \in I }

\* the rollup of keyed rows at the keys ks: how many rows have each key
CountsAt(keyed, ks) ==
    ArrayOf([i \in 1..Len(ks) |->
                [key |-> ks[i], count |-> Cardinality({p \in keyed : p[2] = ks[i]})]])

\* d3.rollups(...).sort(ascending by key)
CountsByKey(keyed) == CountsAt(keyed, Ascending({p[2] : p \in keyed}))

RECURSIVE SumCounts(_, _, _)
\* the sum of the counts of the points from..to
SumCounts(pts, from, to) ==
    IF from > to THEN 0 ELSE pts[from].count + SumCounts(pts, from + 1, to)

\* Mutant of MovingAverage: the window reaches back three points, not two
MovingAverage_WindowOfFour(pts, i) ==
    [sum |-> SumCounts(pts, IF i - 3 > 1 THEN i - 3 ELSE 1, i),
     n |-> i - (IF i - 3 > 1 THEN i - 3 ELSE 1) + 1]

\* d3.mean of arr.slice(Math.max(0, i - 2), i + 1), for the i-th point (from 1)
MovingAverage(pts, i) ==
    [sum |-> SumCounts(pts, IF i - 2 > 1 THEN i - 2 ELSE 1, i),
     n |-> i - (IF i - 2 > 1 THEN i - 2 ELSE 1) + 1]

\* weekly and ma of WeeklyVelocity, point by point
VelocitySeries(weekly) ==
    [i \in 1..Len(weekly) |->
        [week |-> weekly[i].key, count |-> weekly[i].count, avg |-> MovingAverage(weekly, i)]]

\* Mutant of VelocityOf: counts every dated row, done or not
VelocityOf_AllDated(rs, ds) ==
    VelocitySeries(CountsByKey(WeekKeysOf(ds, {i \in 1..Len(rs) : HasDate(rs[i])})))

\* the series WeeklyVelocity draws from the rows rs with derived dates ds
VelocityOf(rs, ds) ==
    VelocitySeries(CountsByKey(WeekKeysOf(ds, {i \in 1..Len(rs) : IsDatedDone(rs[i])})))

WeeklyVelocity(rs, nowT, tzMin, eng) == VelocityOf(rs, ParsedDates(rs, nowT, tzMin, eng))

\* the rows I of rs, each with the day key of its date: <<index, utcDayKey>>
DayKeysOf(ds, I) == { <<i, utcDayKey(ds[i]).day>> : i \in I }

\* the bucket of the day k: how many rows it has and how many of them are done
DayBucket(rs, keyed, k) ==
    [day |-> k,
     added |-> Cardinality({p \in keyed : p[2] = k}),
     done |-> Cardinality({p \in keyed : p[2] = k /\ isDoneDay(rs[p[1]])})]

\* daily of CumulativeBurnup: one bucket per day key, ascending by day
DailyBuckets(rs, keyed, days) ==
    ArrayOf([i \in 1..Len(days) |-> DayBucket(rs, keyed, days[i])])

RECURSIVE RunningSums(_, _, _, _)
\* series of CumulativeBurnup from the i-th day on, cumTotal and cumDone being
\* the sums of the days before
RunningSums(daily, i, cumTotal, cumDone) ==
    IF i > Len(daily) THEN << >>
    ELSE <<[day |-> daily[i].day,
            total |-> cumTotal + daily[i].added,
            done |-> cumDone + daily[i].done]>>
         \o RunningSums(daily, i + 1, cumTotal + daily[i].added, cumDone + daily[i].done)

\* Mutant of BurnupSeries: each point carries its own day's numbers
BurnupSeries_PerDay(daily) ==
    [i \in 1..Len(daily) |->
        [day |-> daily[i].day, total |-> daily[i].added, done |-> daily[i].done]]

BurnupSeries(daily) == RunningSums(daily, 1, 0, 0)

BurnupOfKeys(rs, keyed) ==
    BurnupSeries(DailyBuckets(rs, keyed, Ascending({p[2] : p \in keyed})))

\* the series CumulativeBurnup draws from data
BurnupOf(rs, ds) == BurnupOfKeys(rs, DayKeysOf(ds, {i \in 1..Len(rs) : HasDate(rs[i])}))

CumulativeBurnup(rs, nowT, tzMin, eng) == BurnupOf(rs, ParsedDates(rs, nowT, tzMin, eng))

\* Number(v) of the field f of d is finite: a number, or null, which Number
\* turns into 0; undefined becomes NaN
IsFiniteNumber(d, f) == f \notin d.missing \/ f \in d.nulls

\* Number(d[f]) where it is finite
NumberOf(d, f) == IF f \in d.missing THEN 0 ELSE d[f]

RECURSIVE SumOf(_, _, _)
\* the sum of the finite Number(d[f]) over the rows from i on
SumOf(rs, f, i) ==
    IF i > Len(rs) THEN 0
    ELSE (IF IsFiniteNumber(rs[i], f) THEN NumberOf(rs[i], f) ELSE 0) + SumOf(rs, f, i + 1)

\* avgPct(data.map((d) => d[f])), as the fraction sum / n
avgPct(rs, f) ==
    IF Cardinality({i \in 1..Len(rs) : IsFiniteNumber(rs[i], f)}) = 0
    THEN [sum |-> 0, n |-> 1]
    ELSE [sum |-> SumOf(rs, f, 1),
          n |-> Cardinality({i \in 1..Len(rs) : IsFiniteNumber(rs[i], f)})]

\* rows of TopicWiseBars
TopicWiseBars(rs, focus) ==
    IF focus = "both"
    THEN <<[topic |-> "Python", pct |-> avgPct(rs, "pythonPct")],
           [topic |-> "LLM", pct |-> avgPct(rs, "llmPct")],
           [topic |-> "Overall", pct |-> avgPct(rs, "overallPct")]>>
    ELSE IF focus = "python"
    THEN <<[topic |-> "Python", pct |-> avgPct(rs, "pythonPct")]>>
    ELSE <<[topic |-> "LLM", pct |-> avgPct(rs, "llmPct")]>>

\* a < b for two valid instants
Earlier(a, b) == a.day < b.day \/ (a.day = b.day /\ a.ms < b.ms)

\* dt >= start && dt < end of handleSelectWeek, false for an Invalid Date
WithinWeek(dt, start, end) == dt.valid /\ ~Earlier(dt, start) /\ Earlier(dt, end)

\* the indices of the rows that handleSelectWeek's filter keeps
WeekIndices(rs, ds, start, end) ==
    { i \in 1..Len(rs) : truthy(rs[i].date) /\ WithinWeek(ds[i], start, end) }

\* the index in I that the sort puts first: the earliest date, and of equal
\* dates the one that comes first in the rows
FirstOf(ds, I) ==
    CHOOSE i \in I : \A j \in I \ {i} :
        Earlier(ds[i], ds[j]) \/ (~Earlier(ds[j], ds[i]) /\ i < j)

RECURSIVE SortedRows(_, _, _)
\* rows.sort((a, b) => +parseUTC(a.date) - +parseUTC(b.date)) of the rows I of rs
SortedRows(rs, ds, I) ==
    IF I = {} THEN << >>
    ELSE <<rs[FirstOf(ds, I)]>> \o SortedRows(rs, ds, I \ {FirstOf(ds, I)})

\* Mutant of WeekRows: the week's end is included
WeekRows_Closed(rs, ds, start) ==
    SortedRows(rs, ds, WeekIndices(rs, ds, start, Normalize(start.day + 7, 1)))

\* the rows handleSelectWeek selects for the week that starts at start
WeekRows(rs, ds, start) ==
    SortedRows(rs, ds, WeekIndices(rs, ds, start, Instant(start.day + 7, 0)))

\* handleSelectWeek(weekStartUTC): the rows set for the dialog
handleSelectWeek(rs, weekStartUTC, nowT, tzMin, eng) ==
    WeekRows(rs, ParsedDates(rs, nowT, tzMin, eng), utcWeekKey(weekStartUTC))

(***************************************************************************)
(* SpecDash: the KPIs of one filtered record sequence drawn from the       *)
(* bounded inputs: every short sequence over a few kinds of item, and the  *)
(* longer sequences of undated items of which the first k are done.        *)
(***************************************************************************)
MaxShort == 3         \* the longest sequence over ItemKinds
MaxRows == 40         \* the longest sequence of undated items
MaxWeeks == 5         \* the weeks the dated sequences span

ItemKinds ==
    { Item(<<"2","0","2","4","-","0","3","-","0","5","T","0","0",":","0","0",":","0","0",".","0","0","0","Z">>, 100, 100, 100),
      Item(<<"2","0","2","4","-","0","3","-","0","4","T","1","8",":","3","0",":","0","0",".","0","0","0","Z">>, 100, 0, 0),
      Item(null, 0, 100, 0),
      Item(<<"2","0","2","4","-","0","3","-","0","3","T","0","0",":","0","0",":","0","0",".","0","0","0","Z">>, 0, 0, 0),
      [Item(<<"2","0","2","4","-","0","3","-","0","6","T","0","0",":","0","0",":","0","0",".","0","0","0","Z">>, 0, 0, 0) EXCEPT
          !.missing = {"pythonPct", "llmPct", "overallPct"}, !.nulls = {"pythonPct"}],
      Item(<<"2","0","2","4","-","0","3","-","0","2","T","0","0",":","0","0",":","0","0",".","0","0","0","Z">>, 100, 100, 100),
      Item(<<"2","0","1","5","-","1","2","-","3","1","T","0","0",":","0","0",":","0","0",".","0","0","0","Z">>, 0, 0, 100) }

\* the i-th of the longer sequence whose first k items are done
UndatedItem(i, k) ==
    IF i <= k
    THEN (IF i % 3 = 0 THEN Item(null, 100, 100, 100)
          ELSE IF i % 3 = 1 THEN Item(null, 100, 0, 0)
          ELSE Item(null, 0, 100, 0))
    ELSE (IF i % 2 = 0 THEN Item(null, 0, 0, 0)
          ELSE [Item(null, 0, 0, 0) EXCEPT !.missing = {"overallPct"}])

UndatedRows(n, k) == [i \in 1..n |-> UndatedItem(i, k)]

\* the ISO text of the instant ms milliseconds into the day
ISOAt(day, ms) == toISOString(Instant(day, ms))

\* the Monday of the k-th week of the dated sequences: 2024-03-04 + 7k days
WeekDay0(k) == DaysFromCivil(2024, 3, 4) + 7 * k

\* the items of week k: none; one done; or one done in the week's last
\* millisecond, one done at its first instant and one open
WeekItems(k, c) ==
    IF c = 0 THEN << >>
    ELSE IF c = 1 THEN <<Item(ISOAt(WeekDay0(k) + 2, 9 * 60 * MsPerMinute), 100, 0, 0)>>
    ELSE <<Item(ISOAt(WeekDay0(k) + 6, MsPerDay - 1), 0, 100, 0),
           Item(ISOAt(WeekDay0(k), 0), 100, 100, 100),
           Item(ISOAt(WeekDay0(k) + 3, 0), 0, 0, 0)>>

RECURSIVE DatedRows(_, _)
\* the items of the weeks k-1, ..., 0, latest week first; cs[k] tells how many
DatedRows(cs, k) ==
    IF k = 0 THEN << >> ELSE WeekItems(k - 1, cs[k]) \o DatedRows(cs, k - 1)

FilteredInputs ==
    SeqsUpTo(ItemKinds, MaxShort)
    \cup { UndatedRows(n, k) : n \in 0..MaxRows, k \in 0..MaxRows }
    \cup { DatedRows(cs, MaxWeeks) : cs \in [1..MaxWeeks -> 0..2] }

\* the dashboard before its first render of one of the record sequences
DashStart(inputs) ==
    /\ filtered \in inputs
    /\ kpis = NoKpis
    /\ topicFocus = "both"
    /\ velocity = NotDrawn
    /\ burnup = NotDrawn
    /\ topicBars = NotDrawn
    /\ DialogClosed
    /\ MapIdle
    /\ DateIdle
    /\ IngestIdle
    /\ ViewIdle
    /\ now = Now0
    /\ tz \in TimeZones
    /\ engine \in Engines

InitDash == DashStart(FilteredInputs)

ComputeKpis ==
    /\ kpis = NoKpis
    /\ kpis' = Kpis(filtered, now, tz, engine)
    /\ UNCHANGED <<filtered, topicFocus, chartVars, dialogVars>>
    /\ UNCHANGED <<mapVars, dateVars, ingestVars, clockVars, viewVars>>

\* WeeklyVelocity's draw, after the render that computed the KPIs
DrawWeeklyVelocity ==
    /\ kpis # NoKpis
    /\ velocity = NotDrawn
    /\ velocity' = WeeklyVelocity(filtered, now, tz, engine)
    /\ UNCHANGED <<filtered, kpis, topicFocus, burnup, topicBars, dialogVars>>
    /\ UNCHANGED <<mapVars, dateVars, ingestVars, clockVars, viewVars>>

\* CumulativeBurnup's draw
DrawCumulativeBurnup ==
    /\ velocity # NotDrawn
    /\ burnup = NotDrawn
    /\ burnup' = CumulativeBurnup(filtered, now, tz, engine)
    /\ UNCHANGED <<filtered, kpis, topicFocus, velocity, topicBars, dialogVars>>
    /\ UNCHANGED <<mapVars, dateVars, ingestVars, clockVars, viewVars>>

\* TopicWiseBars' draw
DrawTopicWiseBars ==
    /\ burnup # NotDrawn
    /\ topicBars = NotDrawn
    /\ topicBars' = TopicWiseBars(filtered, topicFocus)
    /\ UNCHANGED <<filtered, kpis, topicFocus, velocity, burnup, dialogVars>>
    /\ UNCHANGED <<mapVars, dateVars, ingestVars, clockVars, viewVars>>

\* a focus button of the controls bar: setTopicFocus(f) and the redraw of
\* the bars that the new focus triggers
SetTopicFocus(f) ==
    /\ topicBars # NotDrawn
    /\ f # topicFocus
    /\ topicFocus' = f
    /\ topicBars' = TopicWiseBars(filtered, f)
    /\ UNCHANGED <<filtered, kpis, velocity, burnup, dialogVars>>
    /\ UNCHANGED <<mapVars, dateVars, ingestVars, clockVars, viewVars>>

\* a click on the velocity chart next to its i-th point: onSelectWeek with
\* the point's week, which is handleSelectWeek
SelectWeek(i) ==
    /\ topicBars # NotDrawn
    /\ i <= Len(velocity)
    /\ selectedWeekStart' = Instant(velocity[i].week, 0)
    /\ selectedWeekRows' = handleSelectWeek(filtered, Instant(velocity[i].week, 0), now, tz, engine)
    /\ openDialog' = TRUE
    /\ UNCHANGED <<filtered, kpis, topicFocus, chartVars>>
    /\ UNCHANGED <<mapVars, dateVars, ingestVars, clockVars, viewVars>>

RenderSteps ==
    \/ ComputeKpis
    \/ DrawWeeklyVelocity
    \/ DrawCumulativeBurnup
    \/ DrawTopicWiseBars

NextDash == RenderSteps \/ \E f \in TopicFocuses : SetTopicFocus(f)

SpecDash == InitDash /\ [][NextDash]_vars

(***************************************************************************)
(* SpecWeek: the week drill-down of the dashboard rendered with one of the *)
(* sequences that carry dates.                                             *)
(***************************************************************************)
WeekInputs ==
    SeqsUpTo(ItemKinds, MaxShort)
    \cup { DatedRows(cs, MaxWeeks) : cs \in [1..MaxWeeks -> 0..2] }

InitWeek == DashStart(WeekInputs)

NextWeek == RenderSteps \/ \E i \in 1..MaxWeeks : SelectWeek(i)

SpecWeek == InitWeek /\ [][NextWeek]_vars

(***************************************************************************)
(* calls holds one record per load() call, in the order the calls began:   *)
(* a call is in flight at its await until its response arrives; a call     *)
(* that ended keeps what it did with the response.                         *)
(***************************************************************************)
\* a load() call at its await
InFlight == [ended |-> FALSE, ok |-> FALSE, data |-> << >>]
\* a load() call that ended with the response data rs
EndedOk(rs) == [ended |-> TRUE, ok |-> TRUE, data |-> rs]
\* a load() call that threw
EndedFailed == [ended |-> TRUE, ok |-> FALSE, data |-> << >>]

(***************************************************************************)
(* components/ProgressDashboard.tsx: the date-range filter.                *)
(***************************************************************************)
DateRanges == {"all", "4w", "12w", "ytd"}

\* the local wall-clock reading of t, and the instant of a local reading
LocalOf(t, tzMin) == AddMinutes(t, tzMin)
InstantOfLocal(l, tzMin) == AddMinutes(l, -tzMin)

\* d3.timeWeek.floor(t): the local Sunday midnight at or before t
\* (1970-01-01 was a Thursday)
timeWeekFloor(t, tzMin) ==
    InstantOfLocal(Instant(LocalOf(t, tzMin).day - ((LocalOf(t, tzMin).day + 4) % 7), 0), tzMin)

\* d3.timeWeek.offset(t, k): k weeks later on the local calendar
timeWeekOffset(t, k) == Instant(t.day + 7 * k, t.ms)

\* new Date(t.getFullYear(), 0, 1): the local midnight of January 1st of the
\* local year of t
StartOfLocalYear(t, tzMin) ==
    InstantOfLocal(DateUTC(getUTCFullYear(LocalOf(t, tzMin)), 1, 1), tzMin)

\* start of the filter; NoDate is undefined
FilterStart(range, nowT, tzMin) ==
    IF range = "4w" THEN timeWeekOffset(timeWeekFloor(nowT, tzMin), -4)
    ELSE IF range = "12w" THEN timeWeekOffset(timeWeekFloor(nowT, tzMin), -12)
    ELSE IF range = "ytd" THEN StartOfLocalYear(nowT, tzMin)
    ELSE NoDate

\* base.filter(keep): the rows of rs at the indices of I, in order
RECURSIVE RowsAt(_, _, _)
RowsAt(rs, I, i) ==
    IF i > Len(rs) THEN << >>
    ELSE (IF i \in I THEN <<rs[i]>> ELSE << >>) \o RowsAt(rs, I, i + 1)

\* Mutant of FilterFrom: a row without a date passes the filter
FilterFrom_KeepUndated(rs, ds, start) ==
    RowsAt(rs, {i \in 1..Len(rs) : ~HasDate(rs[i]) \/ (ds[i].valid /\ ~Earlier(ds[i], start))}, 1)

\* base.filter((d) => (d.date ? parseUTC(d.date) >= start : false)), ds being
\* the parsed dates of rs
FilterFrom(rs, ds, start) ==
    RowsAt(rs, {i \in 1..Len(rs) : HasDate(rs[i]) /\ ds[i].valid /\ ~Earlier(ds[i], start)}, 1)

\* the filtered memo
Filtered(rs, range, nowT, tzMin, eng) ==
    IF Len(rs) = 0 THEN rs
    ELSE IF ~FilterStart(range, nowT, tzMin).valid THEN rs
    ELSE FilterFrom(rs, ParsedDates(rs, nowT, tzMin, eng), FilterStart(range, nowT, tzMin))

(***************************************************************************)
(* SpecFilter: the dashboard holding the records of one successful load,   *)
(* rendered under the range of the URL and re-rendered whenever the       *)
(* range control changes.                                                  *)
(***************************************************************************)
MaxData == 3          \* the longest loaded record sequence

\* records without a date, done and open; records on both sides of the
\* start of each range, two of them inside it in one time zone only
DataKinds ==
    { Item(null, 100, 0, 0),
      Item(null, 0, 0, 0),
      Item(<<"2","0","2","6","-","1","1","-","0","2","T","0","9",":","0","0",":","0","0",".","0","0","0","Z">>, 0, 100, 0),
      Item(<<"2","0","2","6","-","1","0","-","0","3","T","2","0",":","0","0",":","0","0",".","0","0","0","Z">>, 100, 100, 100),
      Item(<<"2","0","2","6","-","0","9","-","0","1","T","0","0",":","0","0",":","0","0",".","0","0","0","Z">>, 0, 0, 0),
      Item(<<"2","0","2","6","-","0","3","-","0","5","T","0","0",":","0","0",":","0","0",".","0","0","0","Z">>, 100, 0, 0),
      Item(<<"2","0","2","5","-","1","2","-","3","1","T","2","0",":","0","0",":","0","0",".","0","0","0","Z">>, 0, 0, 100) }

DataInputs == SeqsUpTo(DataKinds, MaxData)




InitFilter ==
    /\ data \in DataInputs
    /\ dateRange \in DateRanges
    /\ loading = FALSE
    /\ error = null
    /\ lastLoaded = Now0
    /\ calls = <<EndedOk(data)>>
    /\ DashIdle
    /\ MapIdle
    /\ DateIdle
    /\ IngestIdle
    /\ now = Now0
    /\ tz \in TimeZones
    /\ engine \in Engines

\* one render of the loaded dashboard under the range r, with the draws of
\* the charts that follow it: the filtered memo, the KPIs and the series
RenderedWith(f) ==
    /\ filtered' = f
    /\ kpis' = Kpis(f, now, tz, engine)
    /\ velocity' = WeeklyVelocity(f, now, tz, engine)
    /\ burnup' = CumulativeBurnup(f, now, tz, engine)
    /\ topicBars' = TopicWiseBars(f, topicFocus)

\* the first render after the load
RenderLoaded ==
    /\ kpis = NoKpis
    /\ RenderedWith(Filtered(data, dateRange, now, tz, engine))
    /\ UNCHANGED <<topicFocus, dialogVars>>
    /\ UNCHANGED <<mapVars, dateVars, ingestVars, clockVars, viewVars>>

\* the Range select: setDateRange(r) and the render it triggers
SetDateRange(r) ==
    /\ kpis # NoKpis
    /\ r # dateRange
    /\ dateRange' = r
    /\ RenderedWith(Filtered(data, r, now, tz, engine))
    /\ UNCHANGED <<topicFocus, dialogVars>>
    /\ UNCHANGED <<mapVars, dateVars, ingestVars, clockVars>>
    /\ UNCHANGED <<data, loading, error, lastLoaded, calls>>

NextFilter == RenderLoaded \/ \E r \in DateRanges : SetDateRange(r)

SpecFilter == InitFilter /\ [][NextFilter]_vars

(***************************************************************************)
(* components/ProgressDashboard.tsx: load() and the render.                *)
(***************************************************************************)
MaxLoads == 3         \* the load() calls of one visit

\* the record sequences the endpoint answers with, the source growing
Snapshots ==
    { << >>,
      <<Item(<<"2","0","2","6","-","1","1","-","0","2","T","0","9",":","0","0",":","0","0",".","0","0","0","Z">>, 0, 100, 0)>>,
      <<Item(<<"2","0","2","6","-","1","1","-","0","2","T","0","9",":","0","0",":","0","0",".","0","0","0","Z">>, 0, 100, 0), Item(null, 100, 0, 0)>> }

\* what a fetch comes to: a response whose status is ok and whose body has
\* data or has none, a response whose status is not ok, or a thrown error
\* with its message
OkResponses ==
    { [ok |-> TRUE, status |-> 200, hasData |-> TRUE, data |-> s, message |-> << >>] :
        s \in Snapshots }
    \cup { [ok |-> TRUE, status |-> 200, hasData |-> FALSE, data |-> << >>, message |-> << >>] }
FailedResponses ==
    { [ok |-> FALSE, status |-> 500, hasData |-> FALSE, data |-> << >>, message |-> << >>] }
ThrownErrors ==
    { [ok |-> FALSE, status |-> 0, hasData |-> FALSE, data |-> << >>, message |-> m] :
        m \in {<<"F","a","i","l","e","d"," ","t","o"," ","f","e","t","c","h">>, << >>} }

\* e?.message || "Failed to load data", for `HTTP ${res.status}` or a thrown
\* error
ErrorMessage(o) ==
    IF o.status # 0 THEN <<"H","T","T","P"," ">> \o NumberToString(o.status)
    ELSE IF truthy(o.message) THEN o.message
    ELSE <<"F","a","i","l","e","d"," ","t","o"," ","l","o","a","d"," ","d","a","t","a">>

\* json.data ?? []
DataOf(o) == IF o.hasData THEN o.data ELSE << >>

\* what the render shows below the controls bar
ViewOf(ld, err) ==
    IF ld THEN "skeleton" ELSE IF truthy(err) THEN "error" ELSE "dashboard"

\* a render with the data d, the loading flag ld and the error err: the
\* memos are recomputed, and the charts are drawn when the dashboard is what
\* the render shows
Rendered(d, ld, err) ==
    /\ filtered' = Filtered(d, dateRange, now, tz, engine)
    /\ kpis' = Kpis(Filtered(d, dateRange, now, tz, engine), now, tz, engine)
    /\ IF ViewOf(ld, err) = "dashboard"
       THEN /\ velocity' = WeeklyVelocity(Filtered(d, dateRange, now, tz, engine), now, tz, engine)
            /\ burnup' = CumulativeBurnup(Filtered(d, dateRange, now, tz, engine), now, tz, engine)
            /\ topicBars' = TopicWiseBars(Filtered(d, dateRange, now, tz, engine), topicFocus)
       ELSE /\ velocity' = NotDrawn
            /\ burnup' = NotDrawn
            /\ topicBars' = NotDrawn

\* load() up to its await: setLoading(true), setError(null), fetch
LoadBegins ==
    /\ Len(calls) < MaxLoads
    /\ loading' = TRUE
    /\ error' = null
    /\ calls' = Append(calls, InFlight)
    /\ Rendered(data, TRUE, null)
    /\ UNCHANGED <<data, dateRange, lastLoaded>>
    /\ UNCHANGED <<topicFocus, dialogVars>>
    /\ UNCHANGED <<mapVars, dateVars, ingestVars, clockVars>>

\* the first render and its effect: load(), once on visit
Mount ==
    /\ kpis = NoKpis
    /\ calls = << >>
    /\ LoadBegins

\* the Refresh button of the controls bar, which every render shows
Refresh ==
    /\ calls # << >>
    /\ LoadBegins

\* the Retry button of the error message
Retry ==
    /\ calls # << >>
    /\ ViewOf(loading, error) = "error"
    /\ LoadBegins

\* the i-th load() call goes on after its await with a response that is ok:
\* setData, setLastLoaded and, finally, setLoading(false)
LoadSucceeds(i, o) ==
    /\ i <= Len(calls)
    /\ ~calls[i].ended
    /\ o.ok
    /\ data' = DataOf(o)
    /\ lastLoaded' = now
    /\ loading' = FALSE
    /\ calls' = [calls EXCEPT ![i] = EndedOk(DataOf(o))]
    /\ Rendered(DataOf(o), FALSE, error)
    /\ UNCHANGED <<dateRange, error>>
    /\ UNCHANGED <<topicFocus, dialogVars>>
    /\ UNCHANGED <<mapVars, dateVars, ingestVars, clockVars>>

\* the i-th load() call goes on after its await with a response that is not
\* ok or with a thrown error: setError and, finally, setLoading(false)
LoadFails(i, o) ==
    /\ i <= Len(calls)
    /\ ~calls[i].ended
    /\ ~o.ok
    /\ error' = ErrorMessage(o)
    /\ loading' = FALSE
    /\ calls' = [calls EXCEPT ![i] = EndedFailed]
    /\ Rendered(data, FALSE, ErrorMessage(o))
    /\ UNCHANGED <<data, dateRange, lastLoaded>>
    /\ UNCHANGED <<topicFocus, dialogVars>>
    /\ UNCHANGED <<mapVars, dateVars, ingestVars, clockVars>>

InitLoad ==
    /\ ViewIdle
    /\ DashIdle
    /\ MapIdle
    /\ DateIdle
    /\ IngestIdle
    /\ now = Now0
    /\ tz \in TimeZones
    /\ engine \in Engines

NextLoad ==
    \/ Mount
    \/ Refresh
    \/ Retry
    \/ \E i \in 1..MaxLoads : \E o \in OkResponses : LoadSucceeds(i, o)
    \/ \E i \in 1..MaxLoads : \E o \in FailedResponses \cup ThrownErrors : LoadFails(i, o)

SpecLoad == InitLoad /\ [][NextLoad]_vars

(***************************************************************************)
(* Properties of the KPIs (checked under SpecDash).                        *)
(***************************************************************************)
Computed == kpis # NoKpis

\* the filtered records that satisfy the Done predicate
DoneIndices ==
    { i \in 1..Len(filtered) :
        \/ ("overallPct" \notin filtered[i].missing /\ filtered[i].overallPct = 100)
        \/ ("pythonPct" \notin filtered[i].missing /\ filtered[i].pythonPct = 100)
        \/ ("llmPct" \notin filtered[i].missing /\ filtered[i].llmPct = 100) }

\* n / d rounded to the nearest integer, a half rounding up
Rounded(n, d) == (2 * n + d) \div (2 * d)

\* C10: for every filtered record sequence, total is the number of filtered
\* records, done the number of those whose overallPct, pythonPct or llmPct is
\* 100, open = total - done, and completion = round(100 * done / total), 0
\* when total = 0; hence 0 <= done <= total, open >= 0, 0 <= completion <= 100.
C10_Kpis ==
    Computed =>
        /\ kpis.total = Len(filtered)
        /\ kpis.done = Cardinality(DoneIndices)
        /\ kpis.open = kpis.total - kpis.done
        /\ kpis.completion =
              (IF kpis.total = 0 THEN 0 ELSE Rounded(100 * kpis.done, kpis.total))
        /\ 0 <= kpis.done /\ kpis.done <= kpis.total
        /\ kpis.open >= 0
        /\ 0 <= kpis.completion /\ kpis.completion <= 100

\* C10 reached: of 40 filtered records 23 are done (57.5 %), and the completion
\* computed is 57
C10_Witness ==
    /\ Computed
    /\ kpis.total = 40 /\ kpis.done = 23
    /\ kpis.completion = 57

\* the date parseUTC derives for a dated record, and its UTC day
DerivedDate(r) == parseUTC(r.date, now, tz, engine)
DerivedDay(r) == DerivedDate(r).day

\* the UTC days on which a done record exists
DoneDays == { DerivedDay(filtered[i]) : i \in {j \in DoneIndices : truthy(filtered[j].date)} }

\* n is the length of the run of consecutive days that ends at the latest
\* of the days
IsStreak(days, n) ==
    IF days = {} THEN n = 0
    ELSE /\ n >= 1
         /\ \A j \in 0..(n - 1) : (Greatest(days) - j) \in days
         /\ (Greatest(days) - n) \notin days

\* C11: the streak is the length of the maximal run of consecutive UTC days
\* that ends at the latest day with a done record and in which every day has
\* a done record; it is 0 when no done record has a day, several done records
\* of one day count once, and counting stops at the first missing day.
C11_Streak == Computed => IsStreak(DoneDays, kpis.streak)

\* C11 witness: done days D, D-1 and D-3 give a streak of 2
C11_Witness ==
    /\ Computed
    /\ Cardinality(DoneDays) = 3
    /\ Greatest(DoneDays) - 3 \in DoneDays
    /\ kpis.streak = 2

\* the filtered records that are done and carry a date
DatedDone == { i \in DoneIndices : truthy(filtered[i].date) }

\* the Monday of the week of the day d (1970-01-01 was a Thursday)
MondayOf(d) == d - ((d + 3) % 7)

\* the UTC Monday (a day number) of the week of a dated record
DerivedWeek(r) == MondayOf(DerivedDay(r))

VelocityDrawn == velocity # NotDrawn

\* the dated done records, each with the UTC Monday of its week
DoneWeeks == { <<j, DerivedWeek(filtered[j])>> : j \in DatedDone }

\* the series has one point per week of the records ws, and its count is the
\* number of the week's records
IsWeeklyCount(series, ws) ==
    /\ {series[i].week : i \in 1..Len(series)} = {p[2] : p \in ws}
    /\ \A i \in 1..Len(series) :
          series[i].count = Cardinality({p \in ws : p[2] = series[i].week})

\* C12: the weekly velocity series is ascending by UTC week start with one
\* point per week that has a dated done record, and the moving average at a
\* point is the mean of the done counts of that point and of up to two points
\* before it: the own count at the first point, the mean of two at the second,
\* the mean of the last three data points from the third on, whatever the
\* calendar gaps between them.
C12_MovingAverage ==
    VelocityDrawn =>
        /\ IsWeeklyCount(velocity, DoneWeeks)
        /\ \A i \in 1..Len(velocity) :
              /\ i > 1 => velocity[i - 1].week < velocity[i].week
              /\ i = 1 => velocity[i].avg.sum = velocity[i].count * velocity[i].avg.n
              /\ i = 2 => 2 * velocity[i].avg.sum =
                             (velocity[1].count + velocity[2].count) * velocity[i].avg.n
              /\ i >= 3 => 3 * velocity[i].avg.sum =
                              (velocity[i - 2].count + velocity[i - 1].count
                               + velocity[i].count) * velocity[i].avg.n

\* C12 witness: four points with a calendar gap before the last, whose
\* moving average is the mean of the last three points and not of all four
C12_Witness ==
    /\ VelocityDrawn
    /\ Len(velocity) = 4
    /\ velocity[4].week - velocity[3].week = 14
    /\ velocity[1].count # velocity[4].count
    /\ velocity[4].avg.n = 3
    /\ velocity[4].avg.sum = velocity[2].count + velocity[3].count + velocity[4].count

BurnupDrawn == burnup # NotDrawn

\* C13: the cumulative burn-up series is ascending by UTC day with one point
\* per day, and from each point to the next neither the cumulative total nor
\* the cumulative done count decreases.
C13_Monotone ==
    BurnupDrawn =>
        \A i \in 2..Len(burnup) :
            /\ burnup[i - 1].day < burnup[i].day
            /\ burnup[i].total >= burnup[i - 1].total
            /\ burnup[i].done >= burnup[i - 1].done

\* C13 witness: three days of which the second has a new record but no done
\* one, and the third a done one
C13_Witness ==
    /\ BurnupDrawn
    /\ Len(burnup) >= 3
    /\ burnup[2].total > burnup[1].total
    /\ burnup[2].done = burnup[1].done
    /\ burnup[3].done > burnup[2].done

BarsDrawn == topicBars # NotDrawn

\* the percentage field a bar of the topic averages
FieldOf(topic) ==
    IF topic = "Python" THEN "pythonPct" ELSE IF topic = "LLM" THEN "llmPct" ELSE "overallPct"

\* the filtered records whose field f holds a number
HoldsNumber(f) == { i \in 1..Len(filtered) : f \notin filtered[i].missing }

RECURSIVE SumOver(_, _)
\* the sum of the field f over the records I
SumOver(f, I) ==
    IF I = {} THEN 0 ELSE filtered[Least(I)][f] + SumOver(f, I \ {Least(I)})

\* C14: each topic average is the mean of its percentage field over only the
\* filtered records whose field holds a number (a null or undefined field
\* adds nothing to the sum and nothing to the count), and 0 when no record
\* holds a number; the bars are Python, LLM and Overall under the focus both,
\* Python alone under python, LLM alone under llm.
C14_TopicAverages ==
    BarsDrawn =>
        /\ Len(topicBars) = (IF topicFocus = "both" THEN 3 ELSE 1)
        /\ \A b \in 1..Len(topicBars) :
              IF HoldsNumber(FieldOf(topicBars[b].topic)) = {}
              THEN topicBars[b].pct.sum = 0
              ELSE topicBars[b].pct.sum * Cardinality(HoldsNumber(FieldOf(topicBars[b].topic)))
                   = SumOver(FieldOf(topicBars[b].topic), HoldsNumber(FieldOf(topicBars[b].topic)))
                     * topicBars[b].pct.n

\* C14 witness: the Python bar of records of which one has pythonPct null and
\* another pythonPct 100: the bar shows their mean with the null counted as 0
C14_Witness ==
    /\ BarsDrawn
    /\ topicBars[1].topic = "Python"
    /\ \E i \in 1..Len(filtered) : "pythonPct" \in filtered[i].nulls
    /\ \E i \in HoldsNumber("pythonPct") : filtered[i].pythonPct = 100
    /\ topicBars[1].pct.n > Cardinality(HoldsNumber("pythonPct"))
    /\ topicBars[1].pct.sum * Cardinality(HoldsNumber("pythonPct"))
          # SumOver("pythonPct", HoldsNumber("pythonPct")) * topicBars[1].pct.n

(***************************************************************************)
(* Properties of the week drill-down (checked under SpecWeek).             *)
(***************************************************************************)
\* a week has been selected
Selected == openDialog

\* the derived date of each filtered record, NoDate for one without a date
DerivedDates == ParsedDates(filtered, now, tz, engine)

\* the filtered records whose derived date d has W <= d < W + 7 days, for a
\* week start W at midnight
InWeek(ds, W) ==
    { i \in 1..Len(ds) : ds[i].valid /\ W.day <= ds[i].day /\ ds[i].day < W.day + 7 }

\* a is not later than b
NotLater(a, b) == a.day < b.day \/ (a.day = b.day /\ a.ms <= b.ms)

\* sel holds exactly the records I of rs, each as often as I has it, in
\* ascending order of the derived date
IsSelection(sel, rs, I) ==
    /\ Len(sel) = Cardinality(I)
    /\ \A i \in I :
          Cardinality({n \in 1..Len(sel) : sel[n] = rs[i]})
              = Cardinality({j \in I : rs[j] = rs[i]})
    /\ \A n \in 1..Len(sel) : truthy(sel[n].date)
    /\ \A n \in 2..Len(sel) : NotLater(DerivedDate(sel[n - 1]), DerivedDate(sel[n]))

\* C15: selecting the week that starts at the UTC Monday midnight W yields
\* exactly the filtered records with a date d, W <= d < W + 7 days, sorted
\* ascending by date: a record dated W is in, one dated W + 7 days is out,
\* and a record without a date is never in.
C15_WeekRows ==
    Selected =>
        /\ selectedWeekStart.ms = 0
        /\ MondayOf(selectedWeekStart.day) = selectedWeekStart.day
        /\ IsSelection(selectedWeekRows, filtered, InWeek(DerivedDates, selectedWeekStart))

\* C15 witness: the selected rows begin with a record dated exactly W and end
\* with one dated in the last millisecond of the week, which comes first in
\* the filtered records; a record dated exactly W + 7 days is left out
C15_Witness ==
    /\ Selected
    /\ Len(selectedWeekRows) = 3
    /\ DerivedDate(selectedWeekRows[1]) = selectedWeekStart
    /\ DerivedDate(selectedWeekRows[3]) = Instant(selectedWeekStart.day + 6, MsPerDay - 1)
    /\ \E i \in 1..Len(filtered) :
          /\ filtered[i] = selectedWeekRows[3]
          /\ \E j \in (i + 1)..Len(filtered) : filtered[j] = selectedWeekRows[1]
    /\ \E i \in 1..Len(filtered) :
          DerivedDates[i] = Instant(selectedWeekStart.day + 7, 0)

\* the Done predicate of a record
IsDone(r) ==
    \/ ("overallPct" \notin r.missing /\ r.overallPct = 100)
    \/ ("pythonPct" \notin r.missing /\ r.pythonPct = 100)
    \/ ("llmPct" \notin r.missing /\ r.llmPct = 100)

\* the done count of the velocity point of the week that starts on the day d
CountOfWeek(series, d) ==
    IF \E i \in 1..Len(series) : series[i].week = d
    THEN series[CHOOSE i \in 1..Len(series) : series[i].week = d].count
    ELSE 0

\* C20: the drill-down for the week W of a point (W, count) of the weekly
\* velocity series holds exactly count records that satisfy the Done
\* predicate, and the counts of all the points add up to the number of
\* filtered records that have a date and satisfy the Done predicate.
C20_VelocityMatchesDrillDown ==
    /\ Selected =>
          Cardinality({n \in 1..Len(selectedWeekRows) : IsDone(selectedWeekRows[n])})
              = CountOfWeek(velocity, selectedWeekStart.day)
    /\ VelocityDrawn => SumCounts(velocity, 1, Len(velocity)) = Cardinality(DatedDone)

\* C20 witness: a selected week with two done records and one that is not
\* done, in a series of several weeks
C20_Witness ==
    /\ Selected
    /\ Len(velocity) >= 3
    /\ Len(selectedWeekRows) = 3
    /\ CountOfWeek(velocity, selectedWeekStart.day) = 2
    /\ Cardinality(DatedDone) > 2

(***************************************************************************)
(* Properties of the date-range filter (checked under SpecFilter).         *)
(***************************************************************************)
\* the loaded records that lack a date, and those of them that are done
UndatedOf(rs) == {i \in 1..Len(rs) : ~truthy(rs[i].date)}
DoneOf(rs, I) == {i \in I : IsDone(rs[i])}

\* the loaded records with a date that the range lets through: every one
\* under "all", those not earlier than the start of the range otherwise
InRange(ds, start) ==
    {i \in 1..Len(ds) : ds[i].valid /\ (start.valid => ~Earlier(ds[i], start))}
DatedInRange == InRange(ParsedDates(data, now, tz, engine), FilterStart(dateRange, now, tz))

\* what the buckets hold: the last burn-up total and the sum of the weekly
\* counts
BucketTotal == IF Len(burnup) = 0 THEN 0 ELSE burnup[Len(burnup)].total
WeekTotal == SumCounts(velocity, 1, Len(velocity))

\* no bucket holds a record without a date: the day buckets hold the dated
\* records in range, the week buckets the done ones of them, and the streak
\* is the one of their days
BucketsOfDated(dated) ==
    /\ BucketTotal = Cardinality(dated)
    /\ WeekTotal = Cardinality(DoneOf(data, dated))
    /\ IsStreak(DoneDays, kpis.streak)

\* C16 as stated: under every range the records without a date are counted
\* in total, and in done when they are done, and are in no day or week
\* bucket.
C16_CountedUnderEveryRange ==
    Computed =>
        /\ kpis.total = Cardinality(UndatedOf(data)) + Cardinality(DatedInRange)
        /\ kpis.done = Cardinality(DoneOf(data, UndatedOf(data)))
                          + Cardinality(DoneOf(data, DatedInRange))
        /\ BucketsOfDated(DatedInRange)

\* C16 amended: the records without a date are counted in total, and in done
\* when they are done, under the range "all" only; the ranges 4w, 12w and
\* ytd remove them before the KPIs are computed, so that total and done
\* count the dated records in range alone; under every range no day or week
\* bucket holds a record without a date.
C16_CountedUnderAllOnly ==
    Computed =>
        /\ dateRange = "all" =>
              /\ kpis.total = Cardinality(UndatedOf(data)) + Cardinality(DatedInRange)
              /\ kpis.done = Cardinality(DoneOf(data, UndatedOf(data)))
                                + Cardinality(DoneOf(data, DatedInRange))
        /\ dateRange # "all" =>
              /\ UndatedOf(filtered) = {}
              /\ kpis.total = Cardinality(DatedInRange)
              /\ kpis.done = Cardinality(DoneOf(data, DatedInRange))
        /\ BucketsOfDated(DatedInRange)

\* C16 witness: under the range 4w a done record without a date, a dated
\* record in range and one before the range were loaded, and the KPIs count
\* the one in range only
C16_Witness ==
    /\ Computed
    /\ dateRange = "4w"
    /\ Len(data) = 3
    /\ DoneOf(data, UndatedOf(data)) # {}
    /\ Cardinality(DatedInRange) = 1
    /\ Cardinality(UndatedOf(data)) = 1
    /\ kpis.total = 1
    /\ BucketTotal = 1

(***************************************************************************)
(* Properties of load() (checked under SpecLoad).                          *)
(***************************************************************************)
\* the load() calls that ended with a response that was ok, and those still
\* at their await
Succeeded == {i \in 1..Len(calls) : calls[i].ended /\ calls[i].ok}
Pending == {i \in 1..Len(calls) : ~calls[i].ended}

\* a step in which a load() call fails after another one succeeded
FailsAfterSuccess ==
    /\ Succeeded # {}
    /\ \E i \in Pending : calls'[i] = EndedFailed

\* the render shows the retry control of the error message, and it shows the
\* snapshot: the KPIs and the charts drawn from the records held
ShowsRetry == ViewOf(loading, error) = "error"
ShowsSnapshot ==
    /\ ViewOf(loading, error) = "dashboard"
    /\ filtered = Filtered(data, dateRange, now, tz, engine)
    /\ velocity # NotDrawn /\ burnup # NotDrawn /\ topicBars # NotDrawn

\* the records held are empty before any success, and otherwise the whole
\* data of one response that was ok
HoldsOneResponse ==
    IF Succeeded = {} THEN data = << >>
    ELSE \E i \in Succeeded : data = calls[i].data

\* C17: when a load fails after an earlier load succeeded, the dashboard
\* keeps the record sequence of the last successful load unchanged and shows
\* that snapshot together with a retry control; the record sequence held is
\* always empty (before any success) or the complete data of one successful
\* response.
C17_SnapshotWithRetry ==
    /\ [][FailsAfterSuccess => (data' = data /\ ShowsRetry' /\ ShowsSnapshot')]_vars
    /\ []HoldsOneResponse

\* C17 witness: the first load brought two records, the second one failed;
\* the two records are still held, and the render shows the error message
\* with its retry control and no chart
C17_Witness ==
    /\ calls = <<EndedOk(data), EndedFailed>>
    /\ Len(data) = 2
    /\ lastLoaded = now
    /\ ShowsRetry
    /\ ~ShowsSnapshot
    /\ velocity = NotDrawn

\* C19: once no load is in flight the state reflects the outcome of the load
\* started last: if it succeeded, data is its response and error is null;
\* and loading is true whenever some load is in flight.
C19_LatestLoadWins ==
    /\ (calls # << >> /\ Pending = {} /\ calls[Len(calls)].ok) =>
          (data = calls[Len(calls)].data /\ error = null)
    /\ Pending # {} => loading

\* C19 witness: two loads overlapped and both succeeded, the one started
\* first answering last: the records held are those of the first, not those
\* of the load started last
C19_Witness ==
    /\ Len(calls) = 2
    /\ Pending = {}
    /\ calls[1] = EndedOk(data)
    /\ calls[2].ok
    /\ Len(calls[2].data) = 2
    /\ Len(data) = 1
    /\ ShowsSnapshot

====
